---- MODULE Spec2Model ----
(***************************************************************************)
(* Schema construction and validation of the hyperindex code generator     *)
(* (codegenerator/cli/src/config_parsing/entity_parsing.rs).               *)
(*                                                                         *)
(* Identifiers are sequences of one-character strings, so that the         *)
(* storage-identifier grammar is computed character by character.          *)
(* A HashMap is a function; its iteration order, which Rust leaves         *)
(* unspecified, is an order chosen by the action that iterates.            *)
(***************************************************************************)
EXTENDS Naturals, Sequences, FiniteSets

VARIABLES
    pc,       \* position: the function about to run, or "done"
    input,    \* the arguments of the entry point
    schema,   \* the Schema value moved through Schema::validate
    ran,      \* the validation passes that have run, in order
    result    \* the anyhow::Result returned by the entry point

vars == <<pc, input, schema, ran, result>>

-----------------------------------------------------------------------------
(* Bounds of the model *)

MaxEntities == 2    \* entities passed to Schema::new
MaxEnums == 2       \* enums passed to Schema::new
MaxMembers == 4     \* entities, fields and enums of one input schema, together
MaxValues == 2      \* values passed to GraphQLEnum::new
MaxDepth == 5       \* ListType / NonNullType wrappers around a scalar
MaxValidations == 2 \* calls of Schema::validate on one schema
MaxDirectives == 2  \* directives on one field of a document
MaxAbiDepth == 2    \* arrays around the element type of an ABI type
MaxRescriptDepth == 2 \* constructors around the scalars of an application type
MaxPieces == 4        \* pieces of an event string

-----------------------------------------------------------------------------
(* anyhow::Result *)

Ok(v) == [ok |-> TRUE, val |-> v]
Err(kind, code, args) == [ok |-> FALSE, kind |-> kind, code |-> code, args |-> args]

NoResult == [none |-> TRUE]
NoSchema == [none |-> TRUE]
Unit == <<>>

-----------------------------------------------------------------------------
(* Sequences and maps *)

Range(s) == {s[i] : i \in DOMAIN s}

IndexOf(seq, x) == CHOOSE i \in DOMAIN seq : seq[i] = x

SeqsUpTo(S, n) == UNION {[1..k -> S] : k \in 0..n}

\* The iteration orders of a collection with the elements S.
Orders(S) == {s \in [1..Cardinality(S) -> S] : \A i, j \in DOMAIN s : s[i] = s[j] => i = j}

RECURSIVE FlatMap(_, _)
FlatMap(s, f) == IF s = <<>> THEN <<>> ELSE f[Head(s)] \o FlatMap(Tail(s), f)

\* utils::unique_hashmap::from_vec_no_duplicates on (key, value) pairs: an
\* error when two pairs have the same key, otherwise the map of the pairs.
from_vec_no_duplicates(pairs) ==
    IF \E i, j \in DOMAIN pairs : i # j /\ pairs[i][1] = pairs[j][1]
    THEN Err("duplicate keys", "", <<>>)
    ELSE Ok([k \in {pairs[i][1] : i \in DOMAIN pairs} |->
                (CHOOSE p \in Range(pairs) : p[1] = k)[2]])

-----------------------------------------------------------------------------
(* Identifiers *)

Letters ==
    {"a","b","c","d","e","f","g","h","i","j","k","l","m","n","o","p","q","r","s",
     "t","u","v","w","x","y","z","A","B","C","D","E","F","G","H","I","J","K","L",
     "M","N","O","P","Q","R","S","T","U","V","W","X","Y","Z"}
Digits == {"0","1","2","3","4","5","6","7","8","9"}

\* the {0,62} of the regular expression
PgMaxTail == 62

\* Regex ^[a-zA-Z_][a-zA-Z0-9_]{0,62}$
is_valid_postgres_db_name(name) ==
    /\ Len(name) >= 1
    /\ name[1] \in Letters \cup {"_"}
    /\ Len(name) - 1 <= PgMaxTail
    /\ \A i \in 2..Len(name) : name[i] \in Letters \cup Digits \cup {"_"}

\* Reserved words of the generated code's languages (a sample of the table).
RESERVED_WORDS == {<<"t","y","p","e">>, <<"i","f">>}

\* Enum names the framework uses for its own storage types (a sample).
INTERNAL_RESERVED_ENUM_NAMES == {<<"E","V","E","N","T","_","T","Y","P","E">>}

check_enums_for_internal_reserved_words(names) ==
    SelectSeq(names, LAMBDA n : n \in INTERNAL_RESERVED_ENUM_NAMES)

check_names_from_schema_for_reserved_words(names) ==
    SelectSeq(names, LAMBDA n : n \in RESERVED_WORDS)

-----------------------------------------------------------------------------
(* GqlScalar, UserDefinedFieldType, FieldType, Field, Entity, GraphQLEnum *)

BuiltInScalars == {"ID", "String", "Int", "Float", "Boolean", "BigInt", "Bytes"}

Builtin(k) == [kind |-> k]
Custom(name) == [kind |-> "Custom", name |-> name]

Single(s) == [tag |-> "Single", scalar |-> s]
ListType(t) == [tag |-> "ListType", inner |-> t]
NonNullType(t) == [tag |-> "NonNullType", inner |-> t]

RegularField(t) == [tag |-> "RegularField", t |-> t]
DerivedFromField(entity_name, derived_from_field) ==
    [tag |-> "DerivedFromField", entity_name |-> entity_name,
     derived_from_field |-> derived_from_field]

Field(name, field_type) == [name |-> name, field_type |-> field_type]

TypeDefEntity == "Entity"
TypeDefEnum == "Enum"

RECURSIVE UDT_get_underlying_scalar(_)
UDT_get_underlying_scalar(t) ==
    IF t.tag = "Single" THEN t.scalar ELSE UDT_get_underlying_scalar(t.inner)

to_user_defined_field_type(ft) ==
    IF ft.tag = "RegularField" THEN ft.t
    ELSE NonNullType(ListType(NonNullType(Single(Custom(ft.entity_name)))))

get_underlying_scalar(ft) == UDT_get_underlying_scalar(to_user_defined_field_type(ft))


-----------------------------------------------------------------------------
(* GraphQLEnum *)

GraphQLEnum(name, values) == [name |-> name, values |-> values]

\* The filter of check_duplicate_values: a value is kept when inserting it
\* into value_set reports it as new.
RECURSIVE FilterInserted(_, _)
FilterInserted(values, value_set) ==
    IF values = <<>> THEN <<>>
    ELSE LET v == Head(values)
             rest == FilterInserted(Tail(values), value_set \cup {v})
         IN IF v \notin value_set THEN <<v>> \o rest ELSE rest

check_duplicate_values(enm) ==
    LET value_set == Range(enm.values)
        duplicate_values == FilterInserted(enm.values, value_set)
    IN IF duplicate_values # <<>>
       THEN Err("duplicate enum values", "EE212", <<enm.name>> \o duplicate_values)
       ELSE Ok(enm)

check_valid_postgres_name(enm) ==
    LET values_to_check == <<enm.name>> \o enm.values
        invalid_names == SelectSeq(values_to_check, LAMBDA v : ~is_valid_postgres_db_name(v))
    IN IF invalid_names # <<>>
       THEN Err("invalid enum names or values", "EE214", invalid_names)
       ELSE Ok(enm)

valididate(enm) ==
    LET r == check_duplicate_values(enm)
    IN IF r.ok THEN check_valid_postgres_name(r.val) ELSE r

GraphQLEnum_new(name, values) == valididate(GraphQLEnum(name, values))

-----------------------------------------------------------------------------
(* Entity *)

Entity_new(name, fields) ==
    LET m == from_vec_no_duplicates([i \in DOMAIN fields |-> <<fields[i].name, fields[i]>>])
    IN IF m.ok THEN Ok([name |-> name, fields |-> m.val])
       ELSE Err("duplicate field names", "", <<name>>)

\* Field::get_relationship
get_relationship(field) ==
    LET s == get_underlying_scalar(field.field_type)
    IN IF s.kind = "Custom" THEN <<[tag |-> "TypeDef", name |-> s.name]>> ELSE <<>>

derived_from_relationship(field) ==
    IF field.field_type.tag = "DerivedFromField"
    THEN <<[tag |-> "DerivedFrom", name |-> field.field_type.entity_name,
            derived_from_field |-> field.field_type.derived_from_field]>>
    ELSE <<>>

\* Entity::get_relationships, the fields iterated in the order field_order
get_relationships(entity, field_order) ==
    LET derived_from_fields ==
            FlatMap(field_order,
                    [f \in DOMAIN entity.fields |-> derived_from_relationship(entity.fields[f])])
        type_defs ==
            FlatMap(field_order,
                    [f \in DOMAIN entity.fields |-> get_relationship(entity.fields[f])])
    IN derived_from_fields \o type_defs

-----------------------------------------------------------------------------
(* Schema *)

Schema(entities, enums) == [entities |-> entities, enums |-> enums]

\* The iteration orders of the maps of a schema: of its enums, of its
\* entities and of the fields of each entity.
IterOrders(s) ==
    {[enums |-> eno, entities |-> eto, fields |-> fo] :
        eno \in Orders(DOMAIN s.enums),
        eto \in Orders(DOMAIN s.entities),
        fo \in {g \in [DOMAIN s.entities ->
                         UNION {Orders(DOMAIN s.entities[e].fields) : e \in DOMAIN s.entities}] :
                  \A e \in DOMAIN s.entities : g[e] \in Orders(DOMAIN s.entities[e].fields)}}

get_all_enum_type_names(s, it) == it.enums

get_all_enum_values(s, it) ==
    FlatMap(it.enums, [n \in DOMAIN s.enums |-> s.enums[n].values])

get_all_entity_type_names(s, it) == it.entities

get_all_entity_field_names(s, it) ==
    FlatMap(it.entities,
            [e \in DOMAIN s.entities |->
                [i \in DOMAIN it.fields[e] |-> s.entities[e].fields[it.fields[e][i]].name]])

check_enum_type_defs(s, it) ==
    LET reserved_enum_types_used ==
            check_enums_for_internal_reserved_words(get_all_enum_type_names(s, it))
    IN IF reserved_enum_types_used = <<>> THEN Ok(s)
       ELSE Err("reserved enum names", "EE211", reserved_enum_types_used)

\* check_schema_for_reserved_words without the names of the fields.
check_schema_for_reserved_words_NoFieldNames(s, it) ==
    LET all_names == get_all_enum_type_names(s, it) \o get_all_enum_values(s, it)
                     \o get_all_entity_type_names(s, it)
        reserved_used == check_names_from_schema_for_reserved_words(all_names)
    IN IF reserved_used = <<>> THEN Ok(s)
       ELSE Err("reserved keywords", "EE210", reserved_used)

check_schema_for_reserved_words(s, it) ==
    LET all_names == get_all_enum_type_names(s, it) \o get_all_enum_values(s, it)
                     \o get_all_entity_type_names(s, it) \o get_all_entity_field_names(s, it)
        reserved_used == check_names_from_schema_for_reserved_words(all_names)
    IN IF reserved_used = <<>> THEN Ok(s)
       ELSE Err("reserved keywords", "EE210", reserved_used)

\* check_duplicate_naming_between_enums_and_entities reporting only the first
\* name it finds.
check_duplicate_naming_FirstOnly(s, it) ==
    LET duplicate_names ==
            SelectSeq(get_all_enum_type_names(s, it), LAMBDA k : k \in DOMAIN s.entities)
    IN IF duplicate_names # <<>>
       THEN Err("enums and entities with the same name", "EE213", <<Head(duplicate_names)>>)
       ELSE Ok(s)

check_duplicate_naming_between_enums_and_entities(s, it) ==
    LET duplicate_names ==
            SelectSeq(get_all_enum_type_names(s, it), LAMBDA k : k \in DOMAIN s.entities)
    IN IF duplicate_names # <<>>
       THEN Err("enums and entities with the same name", "EE213", duplicate_names)
       ELSE Ok(s)

try_get_type_def(s, name) ==
    IF name \notin DOMAIN s.entities /\ name \notin DOMAIN s.enums
    THEN Err("no type definition", "", <<name>>)
    ELSE IF name \in DOMAIN s.entities /\ name \in DOMAIN s.enums
    THEN Err("both an enum and an entity", "", <<name>>)
    ELSE IF name \in DOMAIN s.entities
    THEN Ok([kind |-> TypeDefEntity, name |-> name])
    ELSE Ok([kind |-> TypeDefEnum, name |-> name])

\* The first error of a sequence of results, Ok(Unit) when there is none:
\* a loop whose body leaves with `?`.
RECURSIVE FirstErr(_)
FirstErr(rs) ==
    IF rs = <<>> THEN Ok(Unit)
    ELSE IF Head(rs).ok THEN FirstErr(Tail(rs)) ELSE Head(rs)

\* check_relationship without the lookup of a field's own type name.
check_relationship_NoTypeDefLookup(s, entity, rel) ==
    LET type_def == try_get_type_def(s, rel.name)
    IN IF rel.tag = "TypeDef" THEN Ok(Unit)
       ELSE IF ~type_def.ok THEN type_def
       ELSE IF type_def.val.kind = TypeDefEnum
       THEN Err("cannot derive from enum", "", <<rel.derived_from_field, rel.name>>)
       ELSE LET derived_entity == s.entities[rel.name]
            IN IF rel.derived_from_field \notin DOMAIN derived_entity.fields
               THEN Err("derived field does not exist", "", <<rel.derived_from_field, rel.name>>)
               ELSE LET sc == get_underlying_scalar(
                                  derived_entity.fields[rel.derived_from_field].field_type)
                    IN IF sc.kind = "Custom" /\ sc.name = entity.name THEN Ok(Unit)
                       ELSE IF sc.kind \in {"ID", "String"} THEN Ok(Unit)
                       ELSE Err("illegal relational key type", "",
                                <<rel.derived_from_field, rel.name, entity.name>>)

\* check_relationship comparing the target field's type with the target
\* entity instead of the declaring entity.
check_relationship_TargetName(s, entity, rel) ==
    LET type_def == try_get_type_def(s, rel.name)
    IN IF rel.tag = "TypeDef" THEN (IF type_def.ok THEN Ok(Unit) ELSE type_def)
       ELSE IF ~type_def.ok THEN type_def
       ELSE IF type_def.val.kind = TypeDefEnum
       THEN Err("cannot derive from enum", "", <<rel.derived_from_field, rel.name>>)
       ELSE LET derived_entity == s.entities[rel.name]
            IN IF rel.derived_from_field \notin DOMAIN derived_entity.fields
               THEN Err("derived field does not exist", "", <<rel.derived_from_field, rel.name>>)
               ELSE LET sc == get_underlying_scalar(
                                  derived_entity.fields[rel.derived_from_field].field_type)
                    IN IF sc.kind = "Custom" /\ sc.name = rel.name THEN Ok(Unit)
                       ELSE IF sc.kind \in {"ID", "String"} THEN Ok(Unit)
                       ELSE Err("illegal relational key type", "",
                                <<rel.derived_from_field, rel.name, entity.name>>)

\* The body of the inner loop of check_related_type_defs_exist.
check_relationship(s, entity, rel) ==
    LET type_def == try_get_type_def(s, rel.name)
    IN IF rel.tag = "TypeDef" THEN (IF type_def.ok THEN Ok(Unit) ELSE type_def)
       ELSE IF ~type_def.ok THEN type_def
       ELSE IF type_def.val.kind = TypeDefEnum
       THEN Err("cannot derive from enum", "", <<rel.derived_from_field, rel.name>>)
       ELSE LET derived_entity == s.entities[rel.name]
            IN IF rel.derived_from_field \notin DOMAIN derived_entity.fields
               THEN Err("derived field does not exist", "", <<rel.derived_from_field, rel.name>>)
               ELSE LET sc == get_underlying_scalar(
                                  derived_entity.fields[rel.derived_from_field].field_type)
                    IN IF sc.kind = "Custom" /\ sc.name = entity.name THEN Ok(Unit)
                       ELSE IF sc.kind \in {"ID", "String"} THEN Ok(Unit)
                       ELSE Err("illegal relational key type", "",
                                <<rel.derived_from_field, rel.name, entity.name>>)

check_related_type_defs_exist(s, it) ==
    LET r == FirstErr(FlatMap(it.entities,
                 [e \in DOMAIN s.entities |->
                     LET rels == get_relationships(s.entities[e], it.fields[e])
                     IN [i \in DOMAIN rels |-> check_relationship(s, s.entities[e], rels[i])]]))
    IN IF r.ok THEN Ok(s) ELSE r

\* Display of GqlScalar, derived by strum_macros::Display: the name of the
\* variant, without the fields of the variant.
GqlScalar_to_string(sc) ==
    CASE sc.kind = "ID" -> <<"I","D">>
      [] sc.kind = "String" -> <<"S","t","r","i","n","g">>
      [] sc.kind = "Int" -> <<"I","n","t">>
      [] sc.kind = "Float" -> <<"F","l","o","a","t">>
      [] sc.kind = "Boolean" -> <<"B","o","o","l","e","a","n">>
      [] sc.kind = "BigInt" -> <<"B","i","g","I","n","t">>
      [] sc.kind = "Bytes" -> <<"B","y","t","e","s">>
      [] sc.kind = "Custom" -> <<"C","u","s","t","o","m">>

\* UDT_validate_type accepting a nullable scalar inside a list.
RECURSIVE UDT_validate_type_NullableInList(_, _)
UDT_validate_type_NullableInList(t, s) ==
    IF t.tag = "Single" THEN Ok(Unit)
    ELSE IF t.tag = "ListType"
    THEN LET field_type == t.inner
         IN IF field_type.tag = "NonNullType"
            THEN LET inner_field_type == field_type.inner
                 IN IF inner_field_type.tag = "Single" /\ inner_field_type.scalar.kind = "Custom"
                    THEN LET type_def == try_get_type_def(s, inner_field_type.scalar.name)
                         IN IF ~type_def.ok THEN type_def
                            ELSE IF type_def.val.kind = TypeDefEntity
                            THEN Err("arrays of entities", "EE211",
                                     <<inner_field_type.scalar.name>>)
                            ELSE UDT_validate_type_NullableInList(field_type, s)
                    ELSE UDT_validate_type_NullableInList(field_type, s)
            ELSE IF field_type.tag = "Single"
            THEN Ok(Unit)
            ELSE Err("nullable nested list", "EE209", <<>>)
    ELSE LET field_type == t.inner
         IN IF field_type.tag = "NonNullType"
            THEN Err("nested not null", "", <<>>)
            ELSE UDT_validate_type_NullableInList(field_type, s)

\* UDT_validate_type without the check for entities inside a list.
RECURSIVE UDT_validate_type_NoEntityCheck(_, _)
UDT_validate_type_NoEntityCheck(t, s) ==
    IF t.tag = "Single" THEN Ok(Unit)
    ELSE IF t.tag = "ListType"
    THEN LET field_type == t.inner
         IN IF field_type.tag = "NonNullType"
            THEN LET inner_field_type == field_type.inner
                 IN IF inner_field_type.tag = "Single" /\ inner_field_type.scalar.kind = "Custom"
                    THEN LET type_def == try_get_type_def(s, inner_field_type.scalar.name)
                         IN IF ~type_def.ok THEN type_def
                            ELSE IF type_def.val.kind = TypeDefEntity
                            THEN UDT_validate_type_NoEntityCheck(field_type, s)
                            ELSE UDT_validate_type_NoEntityCheck(field_type, s)
                    ELSE UDT_validate_type_NoEntityCheck(field_type, s)
            ELSE IF field_type.tag = "Single"
            THEN Err("nullable scalar in list", "EE208", <<GqlScalar_to_string(field_type.scalar)>>)
            ELSE Err("nullable nested list", "EE209", <<>>)
    ELSE LET field_type == t.inner
         IN IF field_type.tag = "NonNullType"
            THEN Err("nested not null", "", <<>>)
            ELSE UDT_validate_type_NoEntityCheck(field_type, s)

\* UDT_validate_type with the errors of the two nullable list shapes exchanged.
RECURSIVE UDT_validate_type_SwappedCodes(_, _)
UDT_validate_type_SwappedCodes(t, s) ==
    IF t.tag = "Single" THEN Ok(Unit)
    ELSE IF t.tag = "ListType"
    THEN LET field_type == t.inner
         IN IF field_type.tag = "NonNullType"
            THEN LET inner_field_type == field_type.inner
                 IN IF inner_field_type.tag = "Single" /\ inner_field_type.scalar.kind = "Custom"
                    THEN LET type_def == try_get_type_def(s, inner_field_type.scalar.name)
                         IN IF ~type_def.ok THEN type_def
                            ELSE IF type_def.val.kind = TypeDefEntity
                            THEN Err("arrays of entities", "EE211",
                                     <<inner_field_type.scalar.name>>)
                            ELSE UDT_validate_type_SwappedCodes(field_type, s)
                    ELSE UDT_validate_type_SwappedCodes(field_type, s)
            ELSE IF field_type.tag = "Single"
            THEN Err("nullable nested list", "EE209", <<>>)
            ELSE Err("nullable scalar in list", "EE208", <<>>)
    ELSE LET field_type == t.inner
         IN IF field_type.tag = "NonNullType"
            THEN Err("nested not null", "", <<>>)
            ELSE UDT_validate_type_SwappedCodes(field_type, s)

RECURSIVE UDT_validate_type(_, _)
UDT_validate_type(t, s) ==
    IF t.tag = "Single" THEN Ok(Unit)
    ELSE IF t.tag = "ListType"
    THEN LET field_type == t.inner
         IN IF field_type.tag = "NonNullType"
            THEN LET inner_field_type == field_type.inner
                 IN IF inner_field_type.tag = "Single" /\ inner_field_type.scalar.kind = "Custom"
                    THEN LET type_def == try_get_type_def(s, inner_field_type.scalar.name)
                         IN IF ~type_def.ok THEN type_def
                            ELSE IF type_def.val.kind = TypeDefEntity
                            THEN Err("arrays of entities", "EE211",
                                     <<inner_field_type.scalar.name>>)
                            ELSE UDT_validate_type(field_type, s)
                    ELSE UDT_validate_type(field_type, s)
            ELSE IF field_type.tag = "Single"
            THEN Err("nullable scalar in list", "EE208", <<GqlScalar_to_string(field_type.scalar)>>)
            ELSE Err("nullable nested list", "EE209", <<>>)
    ELSE LET field_type == t.inner
         IN IF field_type.tag = "NonNullType"
            THEN Err("nested not null", "", <<>>)
            ELSE UDT_validate_type(field_type, s)

\* FieldType::validate_type
validate_type(ft, s) ==
    IF ft.tag = "DerivedFromField" THEN Ok(Unit) ELSE UDT_validate_type(ft.t, s)

\* validate_entity_field_types returning the schema without its enums.
validate_entity_field_types_DropsEnums(s, it) ==
    LET r == FirstErr(FlatMap(it.entities,
                 [e \in DOMAIN s.entities |->
                     [i \in DOMAIN it.fields[e] |->
                         validate_type(s.entities[e].fields[it.fields[e][i]].field_type, s)]]))
    IN IF r.ok THEN Ok(Schema(s.entities, <<>>)) ELSE r

validate_entity_field_types(s, it) ==
    LET r == FirstErr(FlatMap(it.entities,
                 [e \in DOMAIN s.entities |->
                     [i \in DOMAIN it.fields[e] |->
                         validate_type(s.entities[e].fields[it.fields[e][i]].field_type, s)]]))
    IN IF r.ok THEN Ok(s) ELSE r

-----------------------------------------------------------------------------
(* Storage projection *)

\* The String of an identifier.
RECURSIVE Str(_)
Str(name) == IF name = <<>> THEN "" ELSE Head(name) \o Str(Tail(name))

\* GqlScalar::to_postgres_type resolving a Custom scalar among the entities only.
GqlScalar_to_postgres_type_NoEnums(sc, s) ==
    IF sc.kind = "Custom"
    THEN IF sc.name \in DOMAIN s.entities THEN Ok("text")
         ELSE Err("no type definition", "", <<sc.name>>)
    ELSE Ok(CASE sc.kind = "ID" -> "text"
              [] sc.kind = "String" -> "text"
              [] sc.kind = "Int" -> "integer"
              [] sc.kind = "Float" -> "numeric"
              [] sc.kind = "Boolean" -> "boolean"
              [] sc.kind = "Bytes" -> "text"
              [] sc.kind = "BigInt" -> "numeric")

GqlScalar_to_postgres_type(sc, s) ==
    IF sc.kind = "Custom"
    THEN LET type_def == try_get_type_def(s, sc.name)
         IN IF ~type_def.ok THEN type_def
            ELSE IF type_def.val.kind = TypeDefEntity THEN Ok("text")
            ELSE Ok(Str(sc.name))
    ELSE Ok(CASE sc.kind = "ID" -> "text"
              [] sc.kind = "String" -> "text"
              [] sc.kind = "Int" -> "integer"
              [] sc.kind = "Float" -> "numeric"
              [] sc.kind = "Boolean" -> "boolean"
              [] sc.kind = "Bytes" -> "text"
              [] sc.kind = "BigInt" -> "numeric")

\* UserDefinedFieldType::to_postgres_type marking the list before its elements.
RECURSIVE UDT_to_postgres_type_ArrayFirst(_, _)
UDT_to_postgres_type_ArrayFirst(t, s) ==
    IF t.tag = "Single" THEN GqlScalar_to_postgres_type(t.scalar, s)
    ELSE IF t.tag = "ListType"
    THEN LET field_type == t.inner
         IN IF field_type.tag = "NonNullType"
            THEN LET non_null == UDT_to_postgres_type_ArrayFirst(field_type.inner, s)
                 IN IF non_null.ok THEN Ok("[]" \o non_null.val) ELSE non_null
            ELSE Err("only not null list values can be valid", "", <<>>)
    ELSE LET field_type == UDT_to_postgres_type_ArrayFirst(t.inner, s)
         IN IF field_type.ok THEN Ok(field_type.val \o " NOT NULL") ELSE field_type

RECURSIVE UDT_to_postgres_type(_, _)
UDT_to_postgres_type(t, s) ==
    IF t.tag = "Single" THEN GqlScalar_to_postgres_type(t.scalar, s)
    ELSE IF t.tag = "ListType"
    THEN LET field_type == t.inner
         IN IF field_type.tag = "NonNullType"
            THEN LET non_null == UDT_to_postgres_type(field_type.inner, s)
                 IN IF non_null.ok THEN Ok(non_null.val \o "[]") ELSE non_null
            ELSE Err("only not null list values can be valid", "", <<>>)
    ELSE LET field_type == UDT_to_postgres_type(t.inner, s)
         IN IF field_type.ok THEN Ok(field_type.val \o " NOT NULL") ELSE field_type

\* FieldType::to_postgres_type
to_postgres_type(ft, s) == UDT_to_postgres_type(to_user_defined_field_type(ft), s)

-----------------------------------------------------------------------------
(* Application-type projection *)

\* RescriptType
RescriptScalar(k) == [rt |-> k]
RescriptEnumVariant(options) == [rt |-> "EnumVariant", name |-> options]
RescriptArray(inner) == [rt |-> "Array", inner |-> inner]
RescriptOption(inner) == [rt |-> "Option", inner |-> inner]

UpperCase ==
    <<"A","B","C","D","E","F","G","H","I","J","K","L","M",
      "N","O","P","Q","R","S","T","U","V","W","X","Y","Z">>
LowerCase ==
    <<"a","b","c","d","e","f","g","h","i","j","k","l","m",
      "n","o","p","q","r","s","t","u","v","w","x","y","z">>

\* Capitalize::to_capitalized_options: the name with its first character in
\* upper case and in lower case.
to_capitalized_options(name) ==
    LET first(from, to) ==
            IF name = <<>> THEN name
            ELSE IF name[1] \in Range(from)
            THEN <<to[IndexOf(from, name[1])]>> \o Tail(name)
            ELSE name
    IN [capitalized |-> first(LowerCase, UpperCase),
        uncapitalized |-> first(UpperCase, LowerCase)]

\* RescriptType::to_string
RECURSIVE RescriptType_to_string(_)
RescriptType_to_string(r) ==
    CASE r.rt = "Int" -> "int"
      [] r.rt = "Float" -> "float"
      [] r.rt = "BigInt" -> "Ethers.BigInt.t"
      [] r.rt = "String" -> "string"
      [] r.rt = "ID" -> "id"
      [] r.rt = "Bool" -> "bool"
      [] r.rt = "Array" -> "array<" \o RescriptType_to_string(r.inner) \o ">"
      [] r.rt = "Option" -> "option<" \o RescriptType_to_string(r.inner) \o ">"
      [] r.rt = "EnumVariant" -> "Enums." \o Str(r.name.uncapitalized)

GqlScalar_to_rescript_type(sc, s) ==
    IF sc.kind = "Custom"
    THEN LET type_def == try_get_type_def(s, sc.name)
         IN IF ~type_def.ok THEN type_def
            ELSE IF type_def.val.kind = TypeDefEntity THEN Ok(RescriptScalar("ID"))
            ELSE Ok(RescriptEnumVariant(to_capitalized_options(sc.name)))
    ELSE Ok(CASE sc.kind = "ID" -> RescriptScalar("ID")
              [] sc.kind = "String" -> RescriptScalar("String")
              [] sc.kind = "Int" -> RescriptScalar("Int")
              [] sc.kind = "BigInt" -> RescriptScalar("BigInt")
              [] sc.kind = "Float" -> RescriptScalar("Float")
              [] sc.kind = "Bytes" -> RescriptScalar("String")
              [] sc.kind = "Boolean" -> RescriptScalar("Bool"))

\* UserDefinedFieldType::to_rescript_type with a list outside a NonNullType
\* projected to a bare array.
RECURSIVE UDT_to_rescript_type_ListNotOptional(_, _)
UDT_to_rescript_type_ListNotOptional(t, s) ==
    IF t.tag = "NonNullType"
    THEN LET field_type == t.inner
         IN IF field_type.tag = "Single"
            THEN GqlScalar_to_rescript_type(field_type.scalar, s)
            ELSE IF field_type.tag = "ListType"
            THEN LET inner == UDT_to_rescript_type_ListNotOptional(field_type.inner, s)
                 IN IF inner.ok THEN Ok(RescriptArray(inner.val)) ELSE inner
            ELSE UDT_to_rescript_type_ListNotOptional(field_type.inner, s)
    ELSE IF t.tag = "Single"
    THEN LET scalar == GqlScalar_to_rescript_type(t.scalar, s)
         IN IF scalar.ok THEN Ok(RescriptOption(scalar.val)) ELSE scalar
    ELSE LET inner == UDT_to_rescript_type_ListNotOptional(t.inner, s)
         IN IF inner.ok THEN Ok(RescriptArray(inner.val)) ELSE inner

RECURSIVE UDT_to_rescript_type(_, _)
UDT_to_rescript_type(t, s) ==
    IF t.tag = "NonNullType"
    THEN LET field_type == t.inner
         IN IF field_type.tag = "Single"
            THEN GqlScalar_to_rescript_type(field_type.scalar, s)
            ELSE IF field_type.tag = "ListType"
            THEN LET inner == UDT_to_rescript_type(field_type.inner, s)
                 IN IF inner.ok THEN Ok(RescriptArray(inner.val)) ELSE inner
            ELSE UDT_to_rescript_type(field_type.inner, s)
    ELSE IF t.tag = "Single"
    THEN LET scalar == GqlScalar_to_rescript_type(t.scalar, s)
         IN IF scalar.ok THEN Ok(RescriptOption(scalar.val)) ELSE scalar
    ELSE LET inner == UDT_to_rescript_type(t.inner, s)
         IN IF inner.ok THEN Ok(RescriptOption(RescriptArray(inner.val))) ELSE inner

\* FieldType::to_rescript_type
to_rescript_type(ft, s) == UDT_to_rescript_type(to_user_defined_field_type(ft), s)

-----------------------------------------------------------------------------
(* Display strings, and the builder that reads a field of a document *)

\* UserDefinedFieldType::to_string
RECURSIVE UDT_to_string(_)
UDT_to_string(t) ==
    IF t.tag = "Single" THEN GqlScalar_to_string(t.scalar)
    ELSE IF t.tag = "ListType" THEN <<"[">> \o UDT_to_string(t.inner) \o <<"]">>
    ELSE UDT_to_string(t.inner) \o <<"!">>

\* The text around the argument of the directive in FieldType::to_string.
DIRECTIVE_OPEN == <<" ","@","d","e","r","i","v","e","d","F","r","o","m","(","f","i","e","l","d",":"," ","\"">>
DIRECTIVE_CLOSE == <<"\"",")">>
DERIVED_FROM == <<"d","e","r","i","v","e","d","F","r","o","m">>
MY_ENTITY == <<"<","M","Y","_","E","N","T","I","T","Y",">">>

\* FieldType::to_string
FieldType_to_string(ft) ==
    IF ft.tag = "DerivedFromField"
    THEN LET field_str == UDT_to_string(to_user_defined_field_type(ft))
         IN field_str \o DIRECTIVE_OPEN \o ft.entity_name \o DIRECTIVE_CLOSE
    ELSE UDT_to_string(ft.t)

\* graphql_parser::schema::Type
ObjNamedType(name) == [tag |-> "NamedType", name |-> name]
ObjListType(t) == [tag |-> "ListType", inner |-> t]
ObjNonNullType(t) == [tag |-> "NonNullType", inner |-> t]

\* The position of the first c in str, 0 when there is none.
Find(str, c) ==
    IF \E i \in DOMAIN str : str[i] = c
    THEN CHOOSE i \in DOMAIN str : str[i] = c /\ \A j \in 1..(i - 1) : str[j] # c
    ELSE 0

\* A GraphQL name: /[_A-Za-z][_0-9A-Za-z]*/
IsGraphQLName(str) ==
    /\ str # <<>>
    /\ str[1] \in Letters \cup {"_"}
    /\ \A i \in DOMAIN str : str[i] \in Letters \cup Digits \cup {"_"}

\* The type of a field as graphql_parser reads it: a name or a bracketed
\* type, then at most one "!".
RECURSIVE ParseType(_)
ParseType(str) ==
    IF str = <<>> THEN Err("parse", "EE201", <<>>)
    ELSE IF str[Len(str)] = "!"
    THEN LET inner == ParseType(SubSeq(str, 1, Len(str) - 1))
         IN IF ~inner.ok THEN inner
            ELSE IF inner.val.tag = "NonNullType" THEN Err("parse", "EE201", <<>>)
            ELSE Ok(ObjNonNullType(inner.val))
    ELSE IF str[1] = "[" /\ str[Len(str)] = "]"
    THEN LET inner == ParseType(SubSeq(str, 2, Len(str) - 1))
         IN IF inner.ok THEN Ok(ObjListType(inner.val)) ELSE inner
    ELSE IF IsGraphQLName(str) THEN Ok(ObjNamedType(str))
    ELSE Err("parse", "EE201", <<>>)

\* The directives after the type of a field, as graphql_parser reads them:
\* none, or one directive @name(argument: "value").
ParseDirectives(str) ==
    IF str = <<>> THEN Ok(<<>>)
    ELSE LET open == Find(str, "(")
             colon == Find(str, ":")
             name == SubSeq(str, 3, open - 1)
             argument == SubSeq(str, open + 1, colon - 1)
             value == SubSeq(str, colon + 3, Len(str) - 2)
         IN IF /\ Len(str) >= 2 /\ SubSeq(str, 1, 2) = <<" ", "@">>
               /\ 3 < open /\ open + 1 < colon /\ colon + 2 <= Len(str) - 2
               /\ SubSeq(str, colon + 1, colon + 2) = <<" ", "\"">>
               /\ SubSeq(str, Len(str) - 1, Len(str)) = <<"\"", ")">>
               /\ IsGraphQLName(name) /\ IsGraphQLName(argument)
               /\ Find(value, "\"") = 0
            THEN Ok(<<[name |-> name, arguments |-> <<<<argument, [string |-> value]>>>>]>>)
            ELSE Err("parse", "EE201", <<>>)

\* The field `name: str` of an object type, as graphql_parser reads it.
ParseField(name, str) ==
    LET space == Find(str, " ")
        type_str == IF space = 0 THEN str ELSE SubSeq(str, 1, space - 1)
        field_type == ParseType(type_str)
        directives == ParseDirectives(IF space = 0 THEN <<>> ELSE SubSeq(str, space, Len(str)))
    IN IF ~field_type.ok THEN field_type
       ELSE IF ~directives.ok THEN directives
       ELSE Ok([name |-> name, field_type |-> field_type.val, directives |-> directives.val])

\* GqlScalar::from_str
GqlScalar_from_str(str) ==
    IF \E k \in BuiltInScalars : GqlScalar_to_string(Builtin(k)) = str
    THEN Builtin(CHOOSE k \in BuiltInScalars : GqlScalar_to_string(Builtin(k)) = str)
    ELSE Custom(str)

\* UserDefinedFieldType::from_obj_field_type
RECURSIVE UDT_from_obj_field_type(_)
UDT_from_obj_field_type(obj_field_type) ==
    IF obj_field_type.tag = "NamedType" THEN Single(GqlScalar_from_str(obj_field_type.name))
    ELSE IF obj_field_type.tag = "NonNullType"
    THEN NonNullType(UDT_from_obj_field_type(obj_field_type.inner))
    ELSE ListType(UDT_from_obj_field_type(obj_field_type.inner))

\* Option
Some(v) == [some |-> TRUE, val |-> v]
None == [some |-> FALSE]

\* UserDefinedFieldType::get_name_of_derived_from_entity
get_name_of_derived_from_entity(t) ==
    IF /\ t.tag = "NonNullType"
       /\ t.inner.tag = "ListType"
       /\ t.inner.inner.tag = "NonNullType"
       /\ t.inner.inner.inner.tag = "Single"
       /\ t.inner.inner.inner.scalar.kind = "Custom"
    THEN Some(t.inner.inner.inner.scalar.name)
    ELSE None

\* FieldType::from_obj_field_type
FieldType_from_obj_field_type(obj_field_type, derived_from_field) ==
    LET field_type == UDT_from_obj_field_type(obj_field_type)
    IN IF ~derived_from_field.some THEN Ok(RegularField(field_type))
       ELSE LET entity_name == get_name_of_derived_from_entity(field_type)
            IN IF ~entity_name.some
               THEN Err("derivedFrom on a field that is not a non nullable list of non nullable entities",
                        "", <<FieldType_to_string(
                                  DerivedFromField(MY_ENTITY, derived_from_field.val))>>)
               ELSE Ok(DerivedFromField(entity_name.val, derived_from_field.val))

\* Field::from_obj_field taking the first of several derivedFrom directives.
Field_from_obj_field_FirstDirective(field) ==
    LET derived_from_directives ==
            SelectSeq(field.directives, LAMBDA directive : directive.name = DERIVED_FROM)
    IN IF derived_from_directives = <<>>
       THEN LET field_type == FieldType_from_obj_field_type(field.field_type, None)
            IN IF field_type.ok THEN Ok(Field(field.name, field_type.val)) ELSE field_type
       ELSE LET d == derived_from_directives[1]
                field_args == SelectSeq(d.arguments, LAMBDA a : a[1] = <<"f","i","e","l","d">>)
            IN IF field_args = <<>>
               THEN Err("no field argument", "EE203", <<field.name>>)
               ELSE IF "string" \notin DOMAIN field_args[1][2]
               THEN Err("field argument is not a string", "EE204", <<field.name>>)
               ELSE LET field_type == FieldType_from_obj_field_type(
                                          field.field_type, Some(field_args[1][2].string))
                    IN IF field_type.ok THEN Ok(Field(field.name, field_type.val))
                       ELSE field_type

\* Field::from_obj_field
Field_from_obj_field(field) ==
    LET derived_from_directives ==
            SelectSeq(field.directives, LAMBDA directive : directive.name = DERIVED_FROM)
    IN IF Len(derived_from_directives) > 1
       THEN Err("more than one derivedFrom directive", "EE202", <<field.name>>)
       ELSE IF derived_from_directives = <<>>
       THEN LET field_type == FieldType_from_obj_field_type(field.field_type, None)
            IN IF field_type.ok THEN Ok(Field(field.name, field_type.val)) ELSE field_type
       ELSE LET d == derived_from_directives[1]
                field_args == SelectSeq(d.arguments, LAMBDA a : a[1] = <<"f","i","e","l","d">>)
            IN IF field_args = <<>>
               THEN Err("no field argument", "EE203", <<field.name>>)
               ELSE IF "string" \notin DOMAIN field_args[1][2]
               THEN Err("field argument is not a string", "EE204", <<field.name>>)
               ELSE LET field_type == FieldType_from_obj_field_type(
                                          field.field_type, Some(field_args[1][2].string))
                    IN IF field_type.ok THEN Ok(Field(field.name, field_type.val))
                       ELSE field_type

-----------------------------------------------------------------------------
(* Relationship resolution *)

\* get_relational_key returning the target field's name for every legal target.
get_relational_key_NoSuffix(field, s) ==
    LET ft == field.field_type
    IN IF ft.tag = "RegularField" THEN Ok(field.name)
       ELSE IF ft.entity_name \notin DOMAIN s.entities
       THEN Err("entity does not exist", "", <<ft.entity_name>>)
       ELSE IF ft.derived_from_field \notin DOMAIN s.entities[ft.entity_name].fields
       THEN Err("field does not exist on entity", "", <<ft.derived_from_field, ft.entity_name>>)
       ELSE LET entity_field == s.entities[ft.entity_name].fields[ft.derived_from_field]
                sc == get_underlying_scalar(entity_field.field_type)
                type_def == try_get_type_def(s, sc.name)
            IN IF sc.kind = "Custom" /\ ~type_def.ok THEN type_def
               ELSE IF sc.kind = "Custom" /\ type_def.val.kind = TypeDefEntity
               THEN Ok(ft.derived_from_field)
               ELSE IF sc.kind \in {"ID", "String"} THEN Ok(ft.derived_from_field)
               ELSE Err("neither an ID, String or bidirectional relationship", "", <<>>)

\* get_relational_key without the arm of the ID and String target fields.
get_relational_key_ReciprocalOnly(field, s) ==
    LET ft == field.field_type
    IN IF ft.tag = "RegularField" THEN Ok(field.name)
       ELSE IF ft.entity_name \notin DOMAIN s.entities
       THEN Err("entity does not exist", "", <<ft.entity_name>>)
       ELSE IF ft.derived_from_field \notin DOMAIN s.entities[ft.entity_name].fields
       THEN Err("field does not exist on entity", "", <<ft.derived_from_field, ft.entity_name>>)
       ELSE LET entity_field == s.entities[ft.entity_name].fields[ft.derived_from_field]
                sc == get_underlying_scalar(entity_field.field_type)
                type_def == try_get_type_def(s, sc.name)
            IN IF sc.kind = "Custom" /\ ~type_def.ok THEN type_def
               ELSE IF sc.kind = "Custom" /\ type_def.val.kind = TypeDefEntity
               THEN Ok(ft.derived_from_field \o <<"_", "i", "d">>)
               ELSE Err("neither an ID, String or bidirectional relationship", "", <<>>)

\* Field::get_relational_key
get_relational_key(field, s) ==
    LET ft == field.field_type
    IN IF ft.tag = "RegularField" THEN Ok(field.name)
       ELSE IF ft.entity_name \notin DOMAIN s.entities
       THEN Err("entity does not exist", "", <<ft.entity_name>>)
       ELSE IF ft.derived_from_field \notin DOMAIN s.entities[ft.entity_name].fields
       THEN Err("field does not exist on entity", "", <<ft.derived_from_field, ft.entity_name>>)
       ELSE LET entity_field == s.entities[ft.entity_name].fields[ft.derived_from_field]
                sc == get_underlying_scalar(entity_field.field_type)
                type_def == try_get_type_def(s, sc.name)
            IN IF sc.kind = "Custom" /\ ~type_def.ok THEN type_def
               ELSE IF sc.kind = "Custom" /\ type_def.val.kind = TypeDefEntity
               THEN Ok(ft.derived_from_field \o <<"_", "i", "d">>)
               ELSE IF sc.kind \in {"ID", "String"} THEN Ok(ft.derived_from_field)
               ELSE Err("neither an ID, String or bidirectional relationship", "", <<>>)

\* collect::<anyhow::Result<Vec<_>>>(): the first error, or the vector of the values.
RECURSIVE Collect(_)
Collect(rs) ==
    IF rs = <<>> THEN Ok(<<>>)
    ELSE IF ~Head(rs).ok THEN Head(rs)
    ELSE LET rest == Collect(Tail(rs))
         IN IF rest.ok THEN Ok(<<Head(rs).val>> \o rest.val) ELSE rest

\* Entity::get_related_entities, the fields met in field_order.
get_related_entities(entity, other_entities, gql_enums, field_order) ==
    LET required(f) ==
            LET field == entity.fields[f]
                gql_scalar == get_underlying_scalar(field.field_type)
            IN IF gql_scalar.kind = "Custom" /\ gql_scalar.name \notin DOMAIN gql_enums
               THEN IF gql_scalar.name \in DOMAIN other_entities
                    THEN <<Ok(<<field, other_entities[gql_scalar.name]>>)>>
                    ELSE <<Err("entity does not exist", "", <<gql_scalar.name>>)>>
               ELSE <<>>
    IN Collect(FlatMap(field_order, [f \in DOMAIN entity.fields |-> required(f)]))

-----------------------------------------------------------------------------
(* The inputs *)

nA == <<"A">>
nB == <<"B">>
nE == <<"E">>
nX == <<"x">>
nId == <<"i","d">>
nF == <<"f">>
nIf == <<"i","f">>
nEventType == <<"E","V","E","N","T","_","T","Y","P","E">>
\* a name one character longer than the storage-identifier grammar allows
nLong == [i \in 1..(PgMaxTail + 2) |-> "a"]

\* Schema::new and Entity::new collect each vector into a HashMap, whatever
\* the order of its elements: the vectors are drawn with their names in the
\* order listed here.
EntityNameSeq == <<nA, nB, nLong>>
FieldNameSeq == <<nId, nF>>
EnumNameSeq == <<nE, nA, nB, nEventType>>

EntityNames == Range(EntityNameSeq)
FieldNames == Range(FieldNameSeq)
EnumNames == Range(EnumNameSeq)

\* name may follow the definitions of vec in the order of names.
InNameOrder(names, vec, name) ==
    IF vec = <<>> THEN TRUE
    ELSE IndexOf(names, vec[Len(vec)].name) <= IndexOf(names, name)

EnumValueVecs == {<<nX>>, <<nX, nIf>>}

RegularTypes ==
    {RegularField(t) : t \in
        {NonNullType(Single(Builtin("ID"))),
         NonNullType(Single(Custom(nA))),
         NonNullType(Single(Custom(nB))),
         NonNullType(Single(Custom(nE))),
         NonNullType(ListType(NonNullType(Single(Builtin("Int"))))),
         NonNullType(ListType(Single(Builtin("Int")))),
         NonNullType(ListType(ListType(NonNullType(Single(Builtin("Int")))))),
         NonNullType(ListType(NonNullType(Single(Custom(nA))))),
         NonNullType(NonNullType(Single(Builtin("Int"))))}}

DerivedTypes ==
    {DerivedFromField(n, f) : n \in {nA, nE}, f \in FieldNames}

FieldPool == {Field(n, t) : n \in FieldNames, t \in RegularTypes \cup DerivedTypes}

RECURSIVE CountFields(_)
CountFields(entities) ==
    IF entities = <<>> THEN 0
    ELSE Cardinality(DOMAIN Head(entities).fields) + CountFields(Tail(entities))

\* The entities, fields and enums of the definitions built so far.
Members == Len(input.entities) + CountFields(input.entities) + Len(input.enums)

\* The vectors of at most n fields, in the order of names; a vector longer than
\* the field names repeats a name, which Entity::new rejects.
FieldVecs(n) ==
    {fields \in SeqsUpTo(FieldPool,
                         IF n < Cardinality(FieldNames) THEN n ELSE Cardinality(FieldNames)) :
        \A i \in 1..Len(fields) : InNameOrder(FieldNameSeq, SubSeq(fields, 1, i - 1), fields[i].name)}

-----------------------------------------------------------------------------
(* Schema::from_document: the entities are built, then the enums, then     *)
(* Schema::new runs Schema::validate, one pass at a time                   *)

Init ==
    /\ pc = "entities"
    /\ input = [entities |-> <<>>, enums |-> <<>>]
    /\ schema = NoSchema
    /\ ran = <<>>
    /\ result = NoResult

\* Entity::new builds one more entity of the vector passed to Schema::new.
EntityNew ==
    /\ pc = "entities"
    /\ Len(input.entities) < MaxEntities
    /\ Members < MaxMembers
    /\ \E name \in EntityNames, fields \in FieldVecs(MaxMembers - Members - 1) :
        LET r == Entity_new(name, fields)
        IN /\ InNameOrder(EntityNameSeq, input.entities, name)
           /\ r.ok
           /\ input' = [input EXCEPT !.entities = Append(@, r.val)]
    /\ UNCHANGED <<pc, schema, ran, result>>

\* GraphQLEnum::new builds one more enum of the vector passed to Schema::new.
GraphQLEnumNew ==
    /\ pc \in {"entities", "enums"}
    /\ Len(input.enums) < MaxEnums
    /\ Members < MaxMembers
    /\ \E name \in EnumNames, values \in EnumValueVecs :
        LET r == GraphQLEnum_new(name, values)
        IN /\ InNameOrder(EnumNameSeq, input.enums, name)
           /\ r.ok
           /\ input' = [input EXCEPT !.enums = Append(@, r.val)]
    /\ pc' = "enums"
    /\ UNCHANGED <<schema, ran, result>>

SchemaNew ==
    /\ pc \in {"entities", "enums"}
    /\ LET entities == from_vec_no_duplicates(
                           [i \in DOMAIN input.entities |->
                               <<input.entities[i].name, input.entities[i]>>])
           enums == from_vec_no_duplicates(
                        [i \in DOMAIN input.enums |-> <<input.enums[i].name, input.enums[i]>>])
       IN IF ~entities.ok
          THEN /\ result' = Err("duplicate entity names", "", <<>>)
               /\ pc' = "done"
               /\ UNCHANGED schema
          ELSE IF ~enums.ok
          THEN /\ result' = Err("duplicate enum names", "", <<>>)
               /\ pc' = "done"
               /\ UNCHANGED schema
          ELSE /\ schema' = Schema(entities.val, enums.val)
               /\ pc' = "check_enum_type_defs"
               /\ UNCHANGED result
    /\ UNCHANGED <<input, ran>>

\* PassReturns without the `?`: an error of a pass does not end validate.
PassReturns_NoEarlyReturn(name, r, next) ==
    /\ ran' = Append(ran, name)
    /\ schema' = schema
    /\ pc' = next
    /\ result' = IF ~r.ok THEN r ELSE IF next = "done" THEN r ELSE result
    /\ UNCHANGED input

\* The end of one pass of Schema::validate: the pass has consumed the schema
\* and returned r; the `?` after it returns an error from validate, and the
\* value of the last pass is the value of validate.
PassReturns(name, r, next) ==
    /\ ran' = Append(ran, name)
    /\ IF r.ok
       THEN /\ schema' = r.val
            /\ pc' = next
            /\ result' = IF next = "done" THEN r ELSE result
       ELSE /\ schema' = NoSchema
            /\ pc' = "done"
            /\ result' = r
    /\ UNCHANGED input

CheckEnumTypeDefs ==
    /\ pc = "check_enum_type_defs"
    /\ \E it \in IterOrders(schema) :
        PassReturns("check_enum_type_defs", check_enum_type_defs(schema, it),
                    "check_schema_for_reserved_words")

CheckSchemaForReservedWords ==
    /\ pc = "check_schema_for_reserved_words"
    /\ \E it \in IterOrders(schema) :
        PassReturns("check_schema_for_reserved_words",
                    check_schema_for_reserved_words(schema, it),
                    "check_duplicate_naming_between_enums_and_entities")

CheckDuplicateNamingBetweenEnumsAndEntities ==
    /\ pc = "check_duplicate_naming_between_enums_and_entities"
    /\ \E it \in IterOrders(schema) :
        PassReturns("check_duplicate_naming_between_enums_and_entities",
                    check_duplicate_naming_between_enums_and_entities(schema, it),
                    "check_related_type_defs_exist")

CheckRelatedTypeDefsExist ==
    /\ pc = "check_related_type_defs_exist"
    /\ \E it \in IterOrders(schema) :
        PassReturns("check_related_type_defs_exist",
                    check_related_type_defs_exist(schema, it),
                    "validate_entity_field_types")

ValidateEntityFieldTypes ==
    /\ pc = "validate_entity_field_types"
    /\ \E it \in IterOrders(schema) :
        PassReturns("validate_entity_field_types",
                    validate_entity_field_types(schema, it), "done")

-----------------------------------------------------------------------------
(* The consumers of a validated Schema: each calls one function on the     *)
(* Schema that Schema::new returned                                        *)

\* FieldType::to_postgres_type on one field of the validated Schema.
ToPostgresType ==
    /\ pc = "done" /\ result.ok
    /\ \E e \in DOMAIN schema.entities : \E f \in DOMAIN schema.entities[e].fields :
        result' = to_postgres_type(schema.entities[e].fields[f].field_type, schema)
    /\ pc' = "to_postgres_type"
    /\ UNCHANGED <<input, schema, ran>>

\* Field::get_relational_key on one field of the validated Schema: the field
\* the input names, any field when it names none.
GetRelationalKey ==
    /\ pc = "done" /\ result.ok
    /\ \E e \in DOMAIN schema.entities : \E f \in DOMAIN schema.entities[e].fields :
        /\ "field" \in DOMAIN input => input.field = <<e, f>>
        /\ result' = get_relational_key(schema.entities[e].fields[f], schema)
    /\ pc' = "get_relational_key"
    /\ UNCHANGED <<input, schema, ran>>

\* Entity::get_related_entities on one entity of the validated Schema, over
\* the Schema's own maps.
GetRelatedEntities ==
    /\ pc = "done" /\ result.ok
    /\ \E e \in DOMAIN schema.entities :
        \E field_order \in Orders(DOMAIN schema.entities[e].fields) :
            result' = get_related_entities(schema.entities[e], schema.entities,
                                           schema.enums, field_order)
    /\ pc' = "get_related_entities"
    /\ UNCHANGED <<input, schema, ran>>

Next ==
    \/ EntityNew
    \/ GraphQLEnumNew
    \/ SchemaNew
    \/ CheckEnumTypeDefs
    \/ CheckSchemaForReservedWords
    \/ CheckDuplicateNamingBetweenEnumsAndEntities
    \/ CheckRelatedTypeDefsExist
    \/ ValidateEntityFieldTypes
    \/ ToPostgresType
    \/ GetRelationalKey
    \/ GetRelatedEntities

Spec == Init /\ [][Next]_vars

-----------------------------------------------------------------------------
(* GraphQLEnum::new on its own: any name, any vector of values *)

nY == <<"y">>
nDigitFirst == <<"1","x">>
nUnderscore == <<"_">>
nSpace == <<"x"," ","y">>

EnumNameInputs == {nE, nLong, nDigitFirst, nUnderscore, <<>>}
EnumValueInputs == {nX, nY, nSpace, nLong}

InitEnum ==
    /\ pc = "GraphQLEnum::new"
    /\ input \in [name : EnumNameInputs, values : SeqsUpTo(EnumValueInputs, MaxValues)]
    /\ schema = NoSchema
    /\ ran = <<>>
    /\ result = NoResult

GraphQLEnumNewReturns ==
    /\ pc = "GraphQLEnum::new"
    /\ result' = GraphQLEnum_new(input.name, input.values)
    /\ pc' = "done"
    /\ UNCHANGED <<input, schema, ran>>

NextEnum == GraphQLEnumNewReturns

SpecEnum == InitEnum /\ [][NextEnum]_vars

-----------------------------------------------------------------------------
(* The functions of one field type, given a schema *)

ScalarInputs ==
    {Builtin(k) : k \in BuiltInScalars} \cup {Custom(nA), Custom(nE), Custom(nX)}

\* The types with at most d wrappers around their scalar.
RECURSIVE UserDefinedFieldTypes(_)
UserDefinedFieldTypes(d) ==
    IF d = 0 THEN {Single(sc) : sc \in ScalarInputs}
    ELSE LET ts == UserDefinedFieldTypes(d - 1)
         IN ts \cup {ListType(t) : t \in ts} \cup {NonNullType(t) : t \in ts}

FieldTypeInputs ==
    {RegularField(t) : t \in UserDefinedFieldTypes(MaxDepth)}
    \cup {DerivedFromField(n, nF) : n \in {nA, nE, nX}}

\* Schema::empty()
SchemaEmpty == Schema(<<>>, <<>>)

\* An entity A with no fields and an enum E; x is not declared.
SchemaAE ==
    Schema([n \in {nA} |-> [name |-> nA, fields |-> <<>>]],
           [n \in {nE} |-> GraphQLEnum(nE, <<nX>>)])

SchemaInputsOfType == {SchemaEmpty, SchemaAE}

InitType ==
    /\ pc = "validate_type"
    /\ input \in [field_type : FieldTypeInputs, schema : SchemaInputsOfType]
    /\ schema = NoSchema
    /\ ran = <<>>
    /\ result = NoResult

ValidateTypeReturns ==
    /\ pc = "validate_type"
    /\ result' = validate_type(input.field_type, input.schema)
    /\ pc' = "done"
    /\ UNCHANGED <<input, schema, ran>>

NextType == ValidateTypeReturns

SpecType == InitType /\ [][NextType]_vars

-----------------------------------------------------------------------------
(* The projections of one field type, given a schema *)

InitProject ==
    /\ pc = "project"
    /\ input \in [field_type : FieldTypeInputs, schema : SchemaInputsOfType]
    /\ schema = NoSchema
    /\ ran = <<>>
    /\ result = NoResult

ToPostgresTypeReturns ==
    /\ pc = "project"
    /\ result' = to_postgres_type(input.field_type, input.schema)
    /\ pc' = "to_postgres_type"
    /\ UNCHANGED <<input, schema, ran>>

ToRescriptTypeReturns ==
    /\ pc = "project"
    /\ result' = to_rescript_type(input.field_type, input.schema)
    /\ pc' = "to_rescript_type"
    /\ UNCHANGED <<input, schema, ran>>

NextProject == ToPostgresTypeReturns \/ ToRescriptTypeReturns

SpecProject == InitProject /\ [][NextProject]_vars

-----------------------------------------------------------------------------
(* The relational keys of the schema                                       *)
(*   User { id: ID!  name: String!  posts: [Post!]! @derivedFrom(field: F) } *)
(*   Post { id: ID!  author: T }                                           *)
(* for several F and T, built and validated by Schema::new                 *)

nUser == <<"U","s","e","r">>
nPost == <<"P","o","s","t">>
nName == <<"n","a","m","e">>
nAuthor == <<"a","u","t","h","o","r">>
nPosts == <<"p","o","s","t","s">>

\* The declared types T of Post.author.
AuthorTypes ==
    {NonNullType(Single(Custom(nUser))),
     Single(Custom(nUser)),
     NonNullType(Single(Builtin("String"))),
     NonNullType(Single(Builtin("ID"))),
     NonNullType(Single(Builtin("Int"))),
     NonNullType(Single(Custom(nPost)))}

\* The values F of the field argument of the directive on User.posts.
PostsDerivedFrom == {nAuthor, nId, nName}

UserPost(derived_from_field, author_type) ==
    <<Entity_new(nUser, <<Field(nId, RegularField(NonNullType(Single(Builtin("ID"))))),
                          Field(nName, RegularField(NonNullType(Single(Builtin("String"))))),
                          Field(nPosts, DerivedFromField(nPost, derived_from_field))>>).val,
      Entity_new(nPost, <<Field(nId, RegularField(NonNullType(Single(Builtin("ID"))))),
                          Field(nAuthor, RegularField(author_type))>>).val>>

UserPostFields ==
    {<<nUser, nId>>, <<nUser, nName>>, <<nUser, nPosts>>, <<nPost, nId>>, <<nPost, nAuthor>>}

InitKey ==
    /\ pc = "enums"
    /\ \E derived_from_field \in PostsDerivedFrom, author_type \in AuthorTypes :
        \E field \in UserPostFields :
            input = [entities |-> UserPost(derived_from_field, author_type),
                     enums |-> <<>>, field |-> field]
    /\ schema = NoSchema
    /\ ran = <<>>
    /\ result = NoResult

NextKey ==
    \/ SchemaNew
    \/ CheckEnumTypeDefs
    \/ CheckSchemaForReservedWords
    \/ CheckDuplicateNamingBetweenEnumsAndEntities
    \/ CheckRelatedTypeDefsExist
    \/ ValidateEntityFieldTypes
    \/ GetRelationalKey

SpecKey == InitKey /\ [][NextKey]_vars

-----------------------------------------------------------------------------
(* The display string of one field type, read again as the field f of a    *)
(* document                                                                *)

InitDisplay ==
    /\ pc = "display"
    /\ input \in [field_type : FieldTypeInputs]
    /\ schema = NoSchema
    /\ ran = <<>>
    /\ result = NoResult

ToStringReturns ==
    /\ pc = "display"
    /\ result' = FieldType_to_string(input.field_type)
    /\ pc' = "to_string"
    /\ UNCHANGED <<input, schema, ran>>

\* The document parser reads `f: <display string>`, Field::from_obj_field
\* builds the Field.
FromObjFieldReturns ==
    /\ pc = "to_string"
    /\ LET field == ParseField(nF, result)
       IN result' = IF field.ok THEN Field_from_obj_field(field.val) ELSE field
    /\ pc' = "from_obj_field"
    /\ UNCHANGED <<input, schema, ran>>

NextDisplay == ToStringReturns \/ FromObjFieldReturns

SpecDisplay == InitDisplay /\ [][NextDisplay]_vars

-----------------------------------------------------------------------------
(* The reserved-word pass on schemas of one entity, with a stored and a    *)
(* derived field, and one enum with one value, where each of the five      *)
(* names may be a reserved word                                            *)

nType == <<"t","y","p","e">>

ReservedEntityNames == {nA, nB, nType}
ReservedFieldNames == {nF, nIf}
ReservedDerivedNames == {nPosts, nType}
ReservedEnumNames == {nE, nIf, nEventType}
ReservedEnumValues == {nX, nY, nIf}

InitReserved ==
    /\ pc = "enums"
    /\ \E entity \in ReservedEntityNames, field \in ReservedFieldNames,
          derived \in ReservedDerivedNames, enum \in ReservedEnumNames,
          value \in ReservedEnumValues :
        input = [entities |->
                    <<Entity_new(entity,
                          <<Field(field, RegularField(NonNullType(Single(Builtin("ID"))))),
                            Field(derived, DerivedFromField(entity, field))>>).val>>,
                 enums |-> <<GraphQLEnum_new(enum, <<value>>).val>>]
    /\ schema = NoSchema
    /\ ran = <<>>
    /\ result = NoResult

NextReserved ==
    \/ SchemaNew
    \/ CheckEnumTypeDefs
    \/ CheckSchemaForReservedWords
    \/ CheckDuplicateNamingBetweenEnumsAndEntities
    \/ CheckRelatedTypeDefsExist
    \/ ValidateEntityFieldTypes

SpecReserved == InitReserved /\ [][NextReserved]_vars

-----------------------------------------------------------------------------
(* Field::from_obj_field on one field of a parsed document *)

nIndex == <<"i","n","d","e","x">>
nOther == <<"o","t","h","e","r">>
nField == <<"f","i","e","l","d">>

\* The declared types of the field.
ObjTypeInputs ==
    {ObjNamedType(GqlScalar_to_string(Builtin("Int"))),
     ObjNamedType(nA),
     ObjNonNullType(ObjNamedType(nA)),
     ObjNonNullType(ObjListType(ObjNonNullType(ObjNamedType(nA)))),
     ObjNonNullType(ObjListType(ObjNamedType(nA))),
     ObjListType(ObjNonNullType(ObjNamedType(nA))),
     ObjNonNullType(ObjListType(ObjNonNullType(
         ObjNamedType(GqlScalar_to_string(Builtin("Int")))))),
     ObjNonNullType(ObjListType(ObjNonNullType(
         ObjListType(ObjNonNullType(ObjNamedType(nA))))))}

\* graphql_parser::schema::Directive
Directive(name, arguments) == [name |-> name, arguments |-> arguments]

\* The directives a field may carry: derivedFrom with no argument, with a
\* string, with an enum value, with another argument only, with another
\* argument before the field argument; and a directive of another name.
DirectiveInputs ==
    {Directive(DERIVED_FROM, <<>>),
     Directive(DERIVED_FROM, <<<<nField, [string |-> nF]>>>>),
     Directive(DERIVED_FROM, <<<<nField, [enum |-> nF]>>>>),
     Directive(DERIVED_FROM, <<<<nOther, [string |-> nF]>>>>),
     Directive(DERIVED_FROM, <<<<nOther, [string |-> nX]>>, <<nField, [string |-> nId]>>>>),
     Directive(nIndex, <<<<nField, [string |-> nF]>>>>)}

InitField ==
    /\ pc = "field"
    /\ input \in [name : {nF},
                  field_type : ObjTypeInputs,
                  directives : SeqsUpTo(DirectiveInputs, MaxDirectives)]
    /\ schema = NoSchema
    /\ ran = <<>>
    /\ result = NoResult

FieldFromObjField ==
    /\ pc = "field"
    /\ result' = Field_from_obj_field(input)
    /\ pc' = "from_obj_field"
    /\ UNCHANGED <<input, schema, ran>>

NextField == FieldFromObjField

SpecField == InitField /\ [][NextField]_vars

-----------------------------------------------------------------------------
(* Contract import: field types from ABI parameter types *)

\* ethabi::ParamType
AbiUint(size) == [abi |-> "Uint", size |-> size]
AbiInt(size) == [abi |-> "Int", size |-> size]
AbiFixedBytes(size) == [abi |-> "FixedBytes", size |-> size]
AbiPlain(k) == [abi |-> k]
AbiArray(t) == [abi |-> "Array", inner |-> t]
AbiFixedArray(t, size) == [abi |-> "FixedArray", inner |-> t, size |-> size]
AbiTuple(ts) == [abi |-> "Tuple", types |-> ts]

\* UserDefinedFieldType::from_ethabi_type with the byte types as Bytes.
RECURSIVE UDT_from_ethabi_type_BytesAsBytes(_)
UDT_from_ethabi_type_BytesAsBytes(abi_type) ==
    IF abi_type.abi \in {"Uint", "Int"} THEN Ok(NonNullType(Single(Builtin("BigInt"))))
    ELSE IF abi_type.abi = "Bool" THEN Ok(NonNullType(Single(Builtin("Boolean"))))
    ELSE IF abi_type.abi \in {"Bytes", "FixedBytes"}
    THEN Ok(NonNullType(Single(Builtin("Bytes"))))
    ELSE IF abi_type.abi \in {"Address", "String"}
    THEN Ok(NonNullType(Single(Builtin("String"))))
    ELSE IF abi_type.abi \in {"Array", "FixedArray"}
    THEN LET inner_type == UDT_from_ethabi_type_BytesAsBytes(abi_type.inner)
         IN IF inner_type.ok THEN Ok(NonNullType(ListType(inner_type.val))) ELSE inner_type
    ELSE Err("tuples are not handled", "", <<>>)

\* UserDefinedFieldType::from_ethabi_type with nullable scalars.
RECURSIVE UDT_from_ethabi_type_NullableScalars(_)
UDT_from_ethabi_type_NullableScalars(abi_type) ==
    IF abi_type.abi \in {"Uint", "Int"} THEN Ok(Single(Builtin("BigInt")))
    ELSE IF abi_type.abi = "Bool" THEN Ok(Single(Builtin("Boolean")))
    ELSE IF abi_type.abi \in {"Address", "Bytes", "String", "FixedBytes"}
    THEN Ok(Single(Builtin("String")))
    ELSE IF abi_type.abi \in {"Array", "FixedArray"}
    THEN LET inner_type == UDT_from_ethabi_type_NullableScalars(abi_type.inner)
         IN IF inner_type.ok THEN Ok(NonNullType(ListType(inner_type.val))) ELSE inner_type
    ELSE Err("tuples are not handled", "", <<>>)

\* UserDefinedFieldType::from_ethabi_type
RECURSIVE UDT_from_ethabi_type(_)
UDT_from_ethabi_type(abi_type) ==
    IF abi_type.abi \in {"Uint", "Int"} THEN Ok(NonNullType(Single(Builtin("BigInt"))))
    ELSE IF abi_type.abi = "Bool" THEN Ok(NonNullType(Single(Builtin("Boolean"))))
    ELSE IF abi_type.abi \in {"Address", "Bytes", "String", "FixedBytes"}
    THEN Ok(NonNullType(Single(Builtin("String"))))
    ELSE IF abi_type.abi \in {"Array", "FixedArray"}
    THEN LET inner_type == UDT_from_ethabi_type(abi_type.inner)
         IN IF inner_type.ok THEN Ok(NonNullType(ListType(inner_type.val))) ELSE inner_type
    ELSE Err("tuples are not handled", "", <<>>)

\* The sizes of the sized ABI types, and the lengths of the fixed arrays.
AbiSizes == {8, 256}

\* The ABI types with at most d arrays around their element type.
RECURSIVE AbiTypes(_)
AbiTypes(d) ==
    IF d = 0
    THEN {AbiUint(size) : size \in AbiSizes} \cup {AbiInt(size) : size \in AbiSizes}
         \cup {AbiFixedBytes(size) : size \in AbiSizes}
         \cup {AbiPlain(k) : k \in {"Bool", "Address", "Bytes", "String"}}
         \cup {AbiTuple(<<>>), AbiTuple(<<AbiPlain("Bool"), AbiUint(256)>>)}
    ELSE LET ts == AbiTypes(d - 1)
         IN ts \cup {AbiArray(t) : t \in ts}
               \cup {AbiFixedArray(t, size) : t \in ts, size \in AbiSizes}

InitAbi ==
    /\ pc = "abi"
    /\ input \in [abi_type : AbiTypes(MaxAbiDepth), schema : SchemaInputsOfType]
    /\ schema = NoSchema
    /\ ran = <<>>
    /\ result = NoResult

FromEthabiTypeReturns ==
    /\ pc = "abi"
    /\ result' = UDT_from_ethabi_type(input.abi_type)
    /\ pc' = "from_ethabi_type"
    /\ UNCHANGED <<input, schema, ran>>

\* validate_type on the type that from_ethabi_type returned.
AbiValidateTypeReturns ==
    /\ pc = "from_ethabi_type" /\ result.ok
    /\ result' = UDT_validate_type(result.val, input.schema)
    /\ pc' = "validate_type"
    /\ UNCHANGED <<input, schema, ran>>

\* to_postgres_type on the type that from_ethabi_type returned.
AbiToPostgresTypeReturns ==
    /\ pc = "from_ethabi_type" /\ result.ok
    /\ result' = UDT_to_postgres_type(result.val, input.schema)
    /\ pc' = "to_postgres_type"
    /\ UNCHANGED <<input, schema, ran>>

NextAbi == FromEthabiTypeReturns \/ AbiValidateTypeReturns \/ AbiToPostgresTypeReturns

SpecAbi == InitAbi /\ [][NextAbi]_vars

-----------------------------------------------------------------------------
(* Default values of the application types *)

RescriptTuple(types) == [rt |-> "Tuple", types |-> types]

\* Iterator::collect::<Vec<String>>().join(sep)
RECURSIVE Join(_, _)
Join(strs, sep) ==
    IF strs = <<>> THEN ""
    ELSE IF Len(strs) = 1 THEN strs[1]
    ELSE strs[1] \o sep \o Join(Tail(strs), sep)

\* get_default_value_rescript giving an Option the default of its inner type.
RECURSIVE get_default_value_rescript_OptionOfInner(_)
get_default_value_rescript_OptionOfInner(r) ==
    CASE r.rt = "Int" -> "0"
      [] r.rt = "Float" -> "0.0"
      [] r.rt = "BigInt" -> "Ethers.BigInt.zero"
      [] r.rt = "Address" -> "Ethers.Addresses.defaultAddress"
      [] r.rt = "String" -> "\"foo\""
      [] r.rt = "ID" -> "\"my_id\""
      [] r.rt = "Bool" -> "false"
      [] r.rt = "Array" -> "[]"
      [] r.rt = "Option" -> get_default_value_rescript_OptionOfInner(r.inner)
      [] r.rt = "EnumVariant" -> "Enums." \o Str(r.name.uncapitalized) \o "Default"
      [] r.rt = "Tuple" ->
            "(" \o Join([i \in DOMAIN r.types |->
                            get_default_value_rescript_OptionOfInner(r.types[i])], ", ")
                \o ")"

\* RescriptType::get_default_value_rescript
RECURSIVE get_default_value_rescript(_)
get_default_value_rescript(r) ==
    CASE r.rt = "Int" -> "0"
      [] r.rt = "Float" -> "0.0"
      [] r.rt = "BigInt" -> "Ethers.BigInt.zero"
      [] r.rt = "Address" -> "Ethers.Addresses.defaultAddress"
      [] r.rt = "String" -> "\"foo\""
      [] r.rt = "ID" -> "\"my_id\""
      [] r.rt = "Bool" -> "false"
      [] r.rt = "Array" -> "[]"
      [] r.rt = "Option" -> "None"
      [] r.rt = "EnumVariant" -> "Enums." \o Str(r.name.uncapitalized) \o "Default"
      [] r.rt = "Tuple" ->
            "(" \o Join([i \in DOMAIN r.types |-> get_default_value_rescript(r.types[i])], ", ")
                \o ")"

\* RescriptType::get_default_value_non_rescript
RECURSIVE get_default_value_non_rescript(_)
get_default_value_non_rescript(r) ==
    CASE r.rt \in {"Int", "Float"} -> "0"
      [] r.rt = "BigInt" -> "0n"
      [] r.rt = "Address" -> "Addresses.defaultAddress"
      [] r.rt = "String" -> "\"foo\""
      [] r.rt = "ID" -> "\"my_id\""
      [] r.rt = "Bool" -> "false"
      [] r.rt = "Array" -> "[]"
      [] r.rt = "Option" -> "null"
      [] r.rt = "EnumVariant" -> Str(r.name.uncapitalized) \o "Default"
      [] r.rt = "Tuple" ->
            "[" \o Join([i \in DOMAIN r.types |->
                            get_default_value_non_rescript(r.types[i])], ", ")
                \o "]"

RescriptScalars ==
    {RescriptScalar(k) : k \in {"Int", "Float", "BigInt", "Address", "String", "ID", "Bool"}}
    \cup {RescriptEnumVariant(to_capitalized_options(n)) : n \in {nE, nEventType}}

\* The application types with at most d constructors around their scalars;
\* a tuple is empty, or has one element, or a scalar after its first element.
RECURSIVE RescriptTypes(_)
RescriptTypes(d) ==
    IF d = 0 THEN RescriptScalars
    ELSE LET ts == RescriptTypes(d - 1)
         IN ts \cup {RescriptArray(t) : t \in ts} \cup {RescriptOption(t) : t \in ts}
               \cup {RescriptTuple(<<>>)} \cup {RescriptTuple(<<t>>) : t \in ts}
               \cup {RescriptTuple(<<t, u>>) : t \in ts, u \in RescriptScalars}

InitDefault ==
    /\ pc = "default"
    /\ input \in [rescript_type : RescriptTypes(MaxRescriptDepth)]
    /\ schema = NoSchema
    /\ ran = <<>>
    /\ result = NoResult

GetDefaultValueRescriptReturns ==
    /\ pc = "default"
    /\ result' = get_default_value_rescript(input.rescript_type)
    /\ pc' = "get_default_value_rescript"
    /\ UNCHANGED <<input, schema, ran>>

GetDefaultValueNonRescriptReturns ==
    /\ pc = "default"
    /\ result' = get_default_value_non_rescript(input.rescript_type)
    /\ pc' = "get_default_value_non_rescript"
    /\ UNCHANGED <<input, schema, ran>>

NextDefault == GetDefaultValueRescriptReturns \/ GetDefaultValueNonRescriptReturns

SpecDefault == InitDefault /\ [][NextDefault]_vars

-----------------------------------------------------------------------------
(* Event names and signatures of the configuration file *)

EventName(name) == [tag |-> "Name", name |-> name]
\* Event(e), where e is what HumanReadableParser::parse_event made of sig.
EventOfSig(sig) == [tag |-> "Event", sig |-> sig]

WhiteSpace == {" ", "\t", "\n"}

\* str::trim
RECURSIVE TrimStart(_)
TrimStart(str) ==
    IF str # <<>> /\ Head(str) \in WhiteSpace THEN TrimStart(Tail(str)) ELSE str

RECURSIVE TrimEnd(_)
TrimEnd(str) ==
    IF str # <<>> /\ str[Len(str)] \in WhiteSpace
    THEN TrimEnd(SubSeq(str, 1, Len(str) - 1))
    ELSE str

Trim(str) == TrimEnd(TrimStart(str))

\* str::starts_with
StartsWith(str, prefix) ==
    Len(str) >= Len(prefix) /\ SubSeq(str, 1, Len(prefix)) = prefix

EVENT_KEYWORD == <<"e", "v", "e", "n", "t">>
EVENT_PREFIX == EVENT_KEYWORD \o <<" ">>

\* The closure parse_event_sig: the parser of the ethers library accepts
\* the signature (parses) or refuses it.
parse_event_sig(sig, parses) ==
    IF parses THEN Ok(EventOfSig(sig))
    ELSE Err("Unable to parse event signature", "", <<sig>>)

\* EventNameOrSig::try_from handing the parser a signature without the
\* "event " prefix it lacks.
EventNameOrSig_try_from_NoPrefix(event_string, parses) ==
    LET trimmed == Trim(event_string)
    IN IF StartsWith(trimmed, EVENT_PREFIX) \/ "(" \in Range(trimmed)
       THEN parse_event_sig(trimmed, parses)
       ELSE Ok(EventName(trimmed))

\* EventNameOrSig::try_from
EventNameOrSig_try_from(event_string, parses) ==
    LET trimmed == Trim(event_string)
    IN IF StartsWith(trimmed, EVENT_PREFIX)
       THEN parse_event_sig(trimmed, parses)
       ELSE IF "(" \in Range(trimmed)
       THEN parse_event_sig(EVENT_PREFIX \o trimmed, parses)
       ELSE Ok(EventName(trimmed))

\* The pieces the event strings are put together from.
EventStringPieces == {EVENT_KEYWORD, <<" ">>, <<"\t">>, <<"M">>, <<"(">>, <<")">>}

RECURSIVE Concat(_)
Concat(pieces) == IF pieces = <<>> THEN <<>> ELSE Head(pieces) \o Concat(Tail(pieces))

InitEvent ==
    /\ pc = "event"
    /\ \E pieces \in SeqsUpTo(EventStringPieces, MaxPieces) :
          input = [event_string |-> Concat(pieces)]
    /\ schema = NoSchema
    /\ ran = <<>>
    /\ result = NoResult

TryFromReturns ==
    /\ pc = "event"
    /\ \E parses \in BOOLEAN :
          result' = EventNameOrSig_try_from(input.event_string, parses)
    /\ pc' = "try_from"
    /\ UNCHANGED <<input, schema, ran>>

NextEvent == TryFromReturns

SpecEvent == InitEvent /\ [][NextEvent]_vars

-----------------------------------------------------------------------------
(* Optionality of the fields of a validated Schema *)

\* UserDefinedFieldType::is_optional taking only a bare scalar for optional.
UDT_is_optional_OnlySingle(t) == t.tag = "Single"

\* UserDefinedFieldType::is_optional
UDT_is_optional(t) == ~(t.tag = "NonNullType")

\* FieldType::is_optional
is_optional(ft) == UDT_is_optional(to_user_defined_field_type(ft))

\* FieldType::to_rescript_type on one field of the validated Schema.
ToRescriptTypeOfField ==
    /\ pc = "done" /\ result.ok
    /\ \E e \in DOMAIN schema.entities : \E f \in DOMAIN schema.entities[e].fields :
          result' = [field |-> <<e, f>>,
                     rescript_type |->
                         to_rescript_type(schema.entities[e].fields[f].field_type, schema)]
    /\ pc' = "to_rescript_type"
    /\ UNCHANGED <<input, schema, ran>>

\* FieldType::is_optional on the same field.
IsOptionalOfField ==
    /\ pc = "to_rescript_type"
    /\ result' = [field |-> result.field,
                  rescript_type |-> result.rescript_type,
                  is_optional |->
                      is_optional(schema.entities[result.field[1]]
                                      .fields[result.field[2]].field_type)]
    /\ pc' = "is_optional"
    /\ UNCHANGED <<input, schema, ran>>

\* An entity A whose field f has any of the field types, and the enum E.
InitOptional ==
    /\ pc = "enums"
    /\ \E field_type \in FieldTypeInputs :
          input = [entities |-> <<Entity_new(nA, <<Field(nF, field_type)>>).val>>,
                   enums |-> <<GraphQLEnum_new(nE, <<nX>>).val>>]
    /\ schema = NoSchema
    /\ ran = <<>>
    /\ result = NoResult

NextOptional ==
    \/ SchemaNew
    \/ CheckEnumTypeDefs
    \/ CheckSchemaForReservedWords
    \/ CheckDuplicateNamingBetweenEnumsAndEntities
    \/ CheckRelatedTypeDefsExist
    \/ ValidateEntityFieldTypes
    \/ ToRescriptTypeOfField
    \/ IsOptionalOfField

SpecOptional == InitOptional /\ [][NextOptional]_vars

-----------------------------------------------------------------------------
(* Schema::validate once more, on the Schema it returned *)

\* The passes of Schema::validate, in the order of its chain.
PassOrder ==
    <<"check_enum_type_defs",
      "check_schema_for_reserved_words",
      "check_duplicate_naming_between_enums_and_entities",
      "check_related_type_defs_exist",
      "validate_entity_field_types">>

\* validate is called on the Schema that the last call returned.
Revalidate ==
    /\ pc = "done"
    /\ result # NoResult /\ result.ok
    /\ Len(ran) < MaxValidations * Len(PassOrder)
    /\ schema' = result.val
    /\ pc' = "check_enum_type_defs"
    /\ UNCHANGED <<input, ran, result>>

NextAgain ==
    \/ EntityNew
    \/ GraphQLEnumNew
    \/ SchemaNew
    \/ CheckEnumTypeDefs
    \/ CheckSchemaForReservedWords
    \/ CheckDuplicateNamingBetweenEnumsAndEntities
    \/ CheckRelatedTypeDefsExist
    \/ ValidateEntityFieldTypes
    \/ Revalidate

SpecAgain == Init /\ [][NextAgain]_vars

-----------------------------------------------------------------------------
(* Properties *)

InputEntityNames == {input.entities[i].name : i \in DOMAIN input.entities}
InputEnumNames == {input.enums[i].name : i \in DOMAIN input.enums}

\* Schema::validate has been called and has returned.
Validated == pc = "done" /\ ran # <<>>

\* The schema Schema::new passed to validate (meaningful once validate runs).
BuiltSchema ==
    Schema([n \in InputEntityNames |-> CHOOSE e \in Range(input.entities) : e.name = n],
           [n \in InputEnumNames |-> CHOOSE e \in Range(input.enums) : e.name = n])

PassResult(k, s, it) ==
    CASE k = 1 -> check_enum_type_defs(s, it)
      [] k = 2 -> check_schema_for_reserved_words(s, it)
      [] k = 3 -> check_duplicate_naming_between_enums_and_entities(s, it)
      [] k = 4 -> check_related_type_defs_exist(s, it)
      [] k = 5 -> validate_entity_field_types(s, it)

\* The passes that fail on s (whether a pass fails does not depend on the
\* iteration order, only which error it reports).
FailingPasses(s) == {k \in 1..5 : \E it \in IterOrders(s) : ~PassResult(k, s, it).ok}

FieldTypesOf(s) ==
    UNION {{s.entities[e].fields[f].field_type : f \in DOMAIN s.entities[e].fields} :
           e \in DOMAIN s.entities}

\* C1: Schema::validate runs its passes in the order enum reserved names,
\* reserved words, enum/entity collisions, referential existence, field
\* shapes; it returns the error of the first pass in that order that fails,
\* and no pass runs after a pass has failed.
C1_PassesInOrderFirstFailureWins ==
    /\ Len(ran) <= 5
    /\ \A i \in DOMAIN ran : ran[i] = PassOrder[i]
    /\ Validated =>
         LET failing == FailingPasses(BuiltSchema)
         IN IF failing = {}
            THEN ran = PassOrder /\ result = Ok(BuiltSchema)
            ELSE LET first == CHOOSE k \in failing : \A j \in failing : k <= j
                 IN /\ Len(ran) = first
                    /\ ~result.ok
                    /\ \E it \in IterOrders(BuiltSchema) :
                           result = PassResult(first, BuiltSchema, it)

\* A schema on which the reserved-word pass and a later pass both fail has
\* been rejected with the reserved-word error.
C1_Witness ==
    /\ Validated
    /\ 2 \in FailingPasses(BuiltSchema)
    /\ FailingPasses(BuiltSchema) \cap {4, 5} # {}
    /\ 1 \notin FailingPasses(BuiltSchema)
    /\ ~result.ok /\ result.code = "EE210"

PairwiseDistinct(values) == \A i, j \in DOMAIN values : values[i] = values[j] => i = j

\* C2: an enum GraphQLEnum::new returns has pairwise distinct values, and a
\* value list that holds the same string twice gets the EE212 error.
C2_DuplicateValuesRejected ==
    pc = "done" =>
        /\ result.ok => PairwiseDistinct(result.val.values)
        /\ ~PairwiseDistinct(input.values) => ~result.ok /\ result.code = "EE212"

IdentifiersOf(s) ==
    DOMAIN s.entities \cup DOMAIN s.enums
    \cup UNION {DOMAIN s.entities[e].fields : e \in DOMAIN s.entities}
    \cup UNION {Range(s.enums[e].values) : e \in DOMAIN s.enums}

\* C3: every entity name, enum name, field name and enum value of a schema
\* Schema::new returns satisfies the storage-identifier grammar.
C3_IdentifiersMatchGrammar ==
    pc = "done" /\ result.ok =>
        \A n \in IdentifiersOf(result.val) : is_valid_postgres_db_name(n)

RelationshipsOf(entity) ==
    Range(get_relationships(entity, CHOOSE o \in Orders(DOMAIN entity.fields) : TRUE))

\* The identifiers that offend in pass k on s: the reserved names the pass
\* finds, the colliding names, and the identifiers named by the error of
\* each relationship or field the pass rejects.
Offenders(k, s) ==
    CASE k = 1 -> DOMAIN s.enums \cap INTERNAL_RESERVED_ENUM_NAMES
      [] k = 2 -> IdentifiersOf(s) \cap RESERVED_WORDS
      [] k = 3 -> DOMAIN s.enums \cap DOMAIN s.entities
      [] k = 4 -> UNION {UNION {Range(check_relationship(s, s.entities[e], rel).args) :
                                   rel \in {r \in RelationshipsOf(s.entities[e]) :
                                               ~check_relationship(s, s.entities[e], r).ok}} :
                         e \in DOMAIN s.entities}
      [] k = 5 -> UNION {Range(validate_type(ft, s).args) :
                            ft \in {t \in FieldTypesOf(s) : ~validate_type(t, s).ok}}

\* C4: the error of the failing pass names every offending identifier the
\* pass finds in the schema, not only the first one it meets.
C4_AllOffendersReported ==
    Validated /\ ~result.ok => Offenders(Len(ran), BuiltSchema) \subseteq Range(result.args)


\* Both passes before the collision pass succeed on s.
ReservedPassesSucceed(s) ==
    /\ DOMAIN s.enums \cap INTERNAL_RESERVED_ENUM_NAMES = {}
    /\ IdentifiersOf(s) \cap RESERVED_WORDS = {}

\* C5: Schema::new returns Ok only if no name is both an entity and an
\* enum; when such names exist and the two reserved-name passes succeed, it
\* returns the EE213 error, which lists every such name.
C5_NoNameIsBothEntityAndEnum ==
    /\ pc = "done" /\ result.ok => DOMAIN result.val.entities \cap DOMAIN result.val.enums = {}
    /\ Validated /\ ReservedPassesSucceed(BuiltSchema)
         /\ InputEntityNames \cap InputEnumNames # {} =>
            /\ ~result.ok
            /\ result.code = "EE213"
            /\ Range(result.args) = InputEntityNames \cap InputEnumNames
            /\ Len(result.args) = Cardinality(InputEntityNames \cap InputEnumNames)

\* Two names are both an entity and an enum, and EE213 lists them.
C5_Witness ==
    /\ Validated
    /\ Cardinality(InputEntityNames \cap InputEnumNames) = 2
    /\ ~result.ok /\ result.code = "EE213" /\ Len(result.args) = 2

\* C6: in a schema Schema::new returns, the name of every Custom scalar under
\* a field, regular or derived, is a key of exactly one of the entities and
\* the enums, so try_get_type_def returns Ok for it.
C6_CustomScalarsResolve ==
    pc = "done" /\ result.ok =>
        \A ft \in FieldTypesOf(result.val) :
            LET sc == get_underlying_scalar(ft)
            IN sc.kind = "Custom" =>
                /\ (sc.name \in DOMAIN result.val.entities) # (sc.name \in DOMAIN result.val.enums)
                /\ try_get_type_def(result.val, sc.name).ok

\* A returned schema with a regular field of a Custom scalar and a derived
\* field.
C6_Witness ==
    /\ pc = "done" /\ result.ok
    /\ \E ft \in FieldTypesOf(result.val) :
          ft.tag = "RegularField" /\ get_underlying_scalar(ft).kind = "Custom"
    /\ \E ft \in FieldTypesOf(result.val) : ft.tag = "DerivedFromField"

\* What C7 requires of a derived field ft declared on the entity named e.
DerivedFromIsLegal(s, e, ft) ==
    /\ ft.entity_name \in DOMAIN s.entities
    /\ ft.entity_name \notin DOMAIN s.enums
    /\ ft.derived_from_field \in DOMAIN s.entities[ft.entity_name].fields
    /\ LET sc == get_underlying_scalar(
                     s.entities[ft.entity_name].fields[ft.derived_from_field].field_type)
       IN sc.kind \in {"ID", "String"} \/ (sc.kind = "Custom" /\ sc.name = e)

IllegalDerivedFields(s) ==
    {<<e, f>> \in (DOMAIN s.entities) \X FieldNames :
        /\ f \in DOMAIN s.entities[e].fields
        /\ s.entities[e].fields[f].field_type.tag = "DerivedFromField"
        /\ ~DerivedFromIsLegal(s, e, s.entities[e].fields[f].field_type)}

\* C7: Schema::validate rejects every schema with a derived field, unless the
\* field's entity_name is a declared entity and not an enum, its
\* derived_from_field is a field of that entity, and the underlying scalar of
\* that field is ID, String or Custom of the declaring entity's own name.
C7_IllegalDerivedFromRejected ==
    Validated /\ IllegalDerivedFields(BuiltSchema) # {} => ~result.ok

\* The target field exists on a declared entity and refers to an entity, but
\* not to the declaring one; the schema has been rejected for it.
C7_Witness ==
    /\ Validated
    /\ ~result.ok /\ result.kind = "illegal relational key type"
    /\ \E p \in IllegalDerivedFields(BuiltSchema) :
          LET ft == BuiltSchema.entities[p[1]].fields[p[2]].field_type
          IN /\ ft.entity_name \in DOMAIN BuiltSchema.entities
             /\ ft.derived_from_field \in DOMAIN BuiltSchema.entities[ft.entity_name].fields
             /\ LET sc == get_underlying_scalar(
                              BuiltSchema.entities[ft.entity_name]
                                  .fields[ft.derived_from_field].field_type)
                IN sc.kind = "Custom" /\ sc.name = ft.entity_name /\ sc.name # p[1]

\* At every depth of t, the child of a ListType is a NonNullType and the
\* child of a NonNullType is not a NonNullType.
RECURSIVE WellNested(_)
WellNested(t) ==
    CASE t.tag = "Single" -> TRUE
      [] t.tag = "ListType" -> t.inner.tag = "NonNullType" /\ WellNested(t.inner)
      [] t.tag = "NonNullType" -> t.inner.tag # "NonNullType" /\ WellNested(t.inner)

\* C8: in a schema Schema::new returns, every regular field type is well
\* nested at every depth.
C8_ListsWrapNonNull ==
    pc = "done" /\ result.ok =>
        \A ft \in FieldTypesOf(result.val) : ft.tag = "RegularField" => WellNested(ft.t)

\* A returned schema with a regular field that is a list.
C8_Witness ==
    /\ pc = "done" /\ result.ok
    /\ \E ft \in FieldTypesOf(result.val) :
          ft.tag = "RegularField" /\ ft.t.tag = "NonNullType" /\ ft.t.inner.tag = "ListType"


\* name is a declared entity of s and not an enum.
IsEntity(s, name) == name \in DOMAIN s.entities /\ name \notin DOMAIN s.enums

\* t is a list whose element is the non-null directly named entity: [E!]
IsEntityList(t, s) ==
    /\ t.tag = "ListType"
    /\ t.inner.tag = "NonNullType"
    /\ t.inner.inner.tag = "Single"
    /\ t.inner.inner.scalar.kind = "Custom"
    /\ IsEntity(s, t.inner.inner.scalar.name)

RECURSIVE ContainsEntityList(_, _)
ContainsEntityList(t, s) ==
    \/ IsEntityList(t, s)
    \/ t.tag # "Single" /\ ContainsEntityList(t.inner, s)

\* Every wrapper of t around its list of a non-null entity is legal: a list
\* outside it wraps a non-null type and no non-null type wraps a non-null type.
RECURSIVE LegalAroundEntityList(_, _)
LegalAroundEntityList(t, s) ==
    IF IsEntityList(t, s) THEN TRUE
    ELSE IF t.tag = "Single" THEN FALSE
    ELSE IF t.tag = "ListType"
    THEN t.inner.tag = "NonNullType" /\ LegalAroundEntityList(t.inner, s)
    ELSE t.inner.tag # "NonNullType" /\ LegalAroundEntityList(t.inner, s)

\* C9 as stated: a regular field whose type contains, at any depth, a list
\* whose element is a directly named declared entity is rejected with the
\* "Arrays of entities is unsupported" error (the element read as non-null,
\* [E!], the reading that favours the statement).
C9_EntityListAtAnyDepthGetsArraysError ==
    pc = "done" /\ input.field_type.tag = "RegularField"
        /\ ContainsEntityList(input.field_type.t, input.schema) =>
            ~result.ok /\ result.kind = "arrays of entities"

\* C9 as amended: validate_type rejects every regular field whose type
\* contains the list of a non-null directly named declared entity; the error
\* is "Arrays of entities is unsupported" exactly when every wrapper around
\* that list is legal; a derived field is accepted.
C9_EntityListRejected ==
    pc = "done" =>
        /\ input.field_type.tag = "DerivedFromField" => result.ok
        /\ input.field_type.tag = "RegularField"
             /\ ContainsEntityList(input.field_type.t, input.schema) =>
                /\ ~result.ok
                /\ result.kind = "arrays of entities"
                       <=> LegalAroundEntityList(input.field_type.t, input.schema)

\* The list of the entity lies inside another list, every wrapper is legal,
\* and validate_type has answered with the arrays-of-entities error.
C9_Witness ==
    /\ pc = "done"
    /\ input.field_type.tag = "RegularField"
    /\ ~IsEntityList(input.field_type.t, input.schema)
    /\ input.field_type.t.tag = "ListType"
    /\ ContainsEntityList(input.field_type.t, input.schema)
    /\ ~result.ok /\ result.kind = "arrays of entities"

NullableScalarList == NonNullType(ListType(Single(Builtin("Int"))))
NullableNestedList == NonNullType(ListType(ListType(NonNullType(Single(Builtin("Int"))))))

\* validate has reached the field-shape pass on a schema all of whose
\* fields, at least one, have the regular type t.
OnlyFieldShape(t) ==
    /\ Validated
    /\ Len(ran) = 5
    /\ FieldTypesOf(BuiltSchema) = {RegularField(t)}

\* C10: a field declared [Int]! is rejected with EE208 and a field declared
\* [[Int!]]! with EE209; neither shape is in a schema Schema::new returns.
C10_NullableListShapesRejected ==
    /\ OnlyFieldShape(NullableScalarList) => ~result.ok /\ result.code = "EE208"
    /\ OnlyFieldShape(NullableNestedList) => ~result.ok /\ result.code = "EE209"
    /\ pc = "done" /\ result.ok =>
           FieldTypesOf(result.val)
               \cap {RegularField(NullableScalarList), RegularField(NullableNestedList)} = {}

\* The field-shape pass has rejected a schema whose fields are all [[Int!]]!.
C10_Witness ==
    /\ OnlyFieldShape(NullableNestedList)
    /\ ~result.ok /\ result.code = "EE209"

\* C11: FieldType::to_postgres_type returns Ok on every field of every
\* entity of a schema Schema::new returned.
C11_StorageProjectionTotal ==
    pc = "to_postgres_type" => result.ok

\* A list field of a validated schema has been projected for storage.
C11_Witness ==
    pc = "to_postgres_type" /\ result = Ok("integer[] NOT NULL")

\* C12: on a schema Schema::new returned, Field::get_relational_key returns
\* Ok for every field and Entity::get_related_entities returns Ok for every
\* entity.
C12_RelationshipResolutionTotal ==
    pc \in {"get_relational_key", "get_related_entities"} => result.ok

\* The key of a derived field of a validated schema has been resolved through
\* a target field that refers to an entity.
C12_Witness ==
    /\ pc = "get_relational_key"
    /\ \E ft \in FieldTypesOf(schema) :
        /\ ft.tag = "DerivedFromField"
        /\ result = Ok(ft.derived_from_field \o <<"_", "i", "d">>)

\* The field of the validated schema that the input names.
InputField == schema.entities[input.field[1]].fields[input.field[2]]

\* Post.author refers back to User, the entity that declares the derived field.
UserPostExample == UserPost(nAuthor, NonNullType(Single(Custom(nUser))))

\* C13: the relational key of a derived field is derived_from_field followed
\* by "_id" when the target field's underlying scalar refers back to the
\* declaring entity, and derived_from_field itself when it is ID or String;
\* the User/Post schema validates and User.posts resolves to "author_id".
C13_RelationalKey ==
    /\ pc = "get_relational_key" /\ InputField.field_type.tag = "DerivedFromField" =>
        LET ft == InputField.field_type
            target == schema.entities[ft.entity_name].fields[ft.derived_from_field]
            sc == get_underlying_scalar(target.field_type)
        IN /\ sc.kind = "Custom" /\ sc.name = input.field[1] =>
                result = Ok(ft.derived_from_field \o <<"_", "i", "d">>)
           /\ sc.kind \in {"ID", "String"} => result = Ok(ft.derived_from_field)
    /\ input.entities = UserPostExample =>
        /\ pc = "done" => result.ok
        /\ pc = "get_relational_key" /\ input.field = <<nUser, nPosts>> =>
               result = Ok(<<"a", "u", "t", "h", "o", "r", "_", "i", "d">>)

\* User.posts of the validated User/Post schema has been resolved.
C13_Witness ==
    /\ pc = "get_relational_key"
    /\ input.entities = UserPostExample
    /\ input.field = <<nUser, nPosts>>
    /\ result = Ok(<<"a", "u", "t", "h", "o", "r", "_", "i", "d">>)

TypeIntArrayNotNull == NonNullType(ListType(NonNullType(Single(Builtin("Int")))))

\* The storage type of a scalar, as the documentation tabulates it.
StorageTypeOfScalar(sc, s) ==
    CASE sc.kind \in {"ID", "String", "Bytes"} -> "text"
      [] sc.kind = "Int" -> "integer"
      [] sc.kind \in {"Float", "BigInt"} -> "numeric"
      [] sc.kind = "Boolean" -> "boolean"
      [] sc.kind = "Custom" /\ sc.name \in DOMAIN s.entities -> "text"
      [] sc.kind = "Custom" /\ sc.name \in DOMAIN s.enums -> Str(sc.name)

\* C14: to_postgres_type maps ID, String and Bytes to "text", Int to
\* "integer", Float and BigInt to "numeric", Boolean to "boolean", a Custom
\* naming an entity to "text" and a Custom naming an enum to the enum's name;
\* ListType(NonNullType(T)) to the projection of T followed by "[]" and
\* NonNullType(T) to the projection of T followed by " NOT NULL"; so [Int!]!
\* yields "integer[] NOT NULL" and [[Int!]!]! yields "integer[][] NOT NULL".
C14_StorageProjection ==
    pc = "to_postgres_type" /\ input.field_type.tag = "RegularField" =>
        LET t == input.field_type.t
            s == input.schema
        IN /\ t.tag = "Single" /\ (t.scalar.kind = "Custom" => try_get_type_def(s, t.scalar.name).ok) =>
                result = Ok(StorageTypeOfScalar(t.scalar, s))
           /\ t.tag = "ListType" /\ t.inner.tag = "NonNullType"
                /\ UDT_to_postgres_type(t.inner.inner, s).ok =>
                result = Ok(UDT_to_postgres_type(t.inner.inner, s).val \o "[]")
           /\ t.tag = "NonNullType" /\ UDT_to_postgres_type(t.inner, s).ok =>
                result = Ok(UDT_to_postgres_type(t.inner, s).val \o " NOT NULL")
           /\ t = TypeIntArrayNotNull => result = Ok("integer[] NOT NULL")
           /\ t = NonNullType(ListType(NonNullType(ListType(NonNullType(Single(Builtin("Int")))))))
                => result = Ok("integer[][] NOT NULL")

\* [[E!]!]! has been projected with a schema that declares the enum E.
C14_Witness ==
    /\ pc = "to_postgres_type"
    /\ input.field_type =
         RegularField(NonNullType(ListType(NonNullType(ListType(NonNullType(Single(Custom(nE))))))))
    /\ result = Ok("E[][] NOT NULL")

\* C15: to_postgres_type never yields a stored-column type for a
\* DerivedFromField, while to_rescript_type yields the array of the related
\* entity's identifier type for it.
C15_DerivedFieldNotStored ==
    input.field_type.tag = "DerivedFromField" =>
        /\ pc = "to_postgres_type" => ~result.ok
        /\ pc = "to_rescript_type"
             /\ input.field_type.entity_name \in DOMAIN input.schema.entities =>
               result = Ok(RescriptArray(RescriptScalar("ID")))

\* C16: where the Custom scalars of T resolve, the projection of
\* NonNullType(T) is the projection of T with exactly one outer Option
\* removed, and the projection of a Single or ListType that no NonNullType
\* encloses is an Option.
C16_NonNullStripsOneOption ==
    pc = "to_rescript_type" /\ input.field_type.tag = "RegularField" =>
        LET t == input.field_type.t
            s == input.schema
        IN /\ t.tag = "NonNullType" /\ UDT_to_rescript_type(t.inner, s).ok =>
                UDT_to_rescript_type(t.inner, s) = Ok(RescriptOption(result.val))
           /\ t.tag \in {"Single", "ListType"} /\ result.ok => result.val.rt = "Option"

\* The application type s' of a scalar, as the documentation tabulates it.
ApplicationTypeOfScalar(sc, s) ==
    CASE sc.kind = "ID" -> "id"
      [] sc.kind = "Custom" /\ sc.name \in DOMAIN s.entities -> "id"
      [] sc.kind \in {"String", "Bytes"} -> "string"
      [] sc.kind = "Int" -> "int"
      [] sc.kind = "Float" -> "float"
      [] sc.kind = "BigInt" -> "Ethers.BigInt.t"
      [] sc.kind = "Boolean" -> "bool"
      [] sc.kind = "Custom" /\ sc.name \in DOMAIN s.enums ->
            "Enums." \o Str(to_capitalized_options(sc.name).uncapitalized)

\* C17: to_rescript_type projects Single(s) to option<s'>, NonNull(Single(s))
\* to s', [Int!]! to array<int> and [Int] to option<array<option<int>>>,
\* where s' is id for ID and for a Custom naming an entity, string for String
\* and Bytes, int for Int, float for Float, the big-integer type for BigInt,
\* bool for Boolean and Enums.<uncapitalized name> for a Custom naming an enum.
C17_ApplicationProjection ==
    pc = "to_rescript_type" /\ input.field_type.tag = "RegularField" =>
        LET t == input.field_type.t
            s == input.schema
            Resolves(sc) == sc.kind = "Custom" => try_get_type_def(s, sc.name).ok
        IN /\ t.tag = "Single" /\ Resolves(t.scalar) =>
                /\ result.ok
                /\ RescriptType_to_string(result.val) =
                       "option<" \o ApplicationTypeOfScalar(t.scalar, s) \o ">"
           /\ t.tag = "NonNullType" /\ t.inner.tag = "Single" /\ Resolves(t.inner.scalar) =>
                /\ result.ok
                /\ RescriptType_to_string(result.val) = ApplicationTypeOfScalar(t.inner.scalar, s)
           /\ t = TypeIntArrayNotNull =>
                result.ok /\ RescriptType_to_string(result.val) = "array<int>"
           /\ t = ListType(Single(Builtin("Int"))) =>
                result.ok /\ RescriptType_to_string(result.val) = "option<array<option<int>>>"
           /\ t = Single(Custom(nE)) /\ nE \in DOMAIN s.enums =>
                result.ok /\ RescriptType_to_string(result.val) = "option<Enums.e>"

\* [Int] has been projected.
C17_Witness ==
    /\ pc = "to_rescript_type"
    /\ input.field_type = RegularField(ListType(Single(Builtin("Int"))))
    /\ result = Ok(RescriptOption(RescriptArray(RescriptOption(RescriptScalar("Int")))))

\* C18: when validate returns Ok(S') on S then S' = S, and validate run again
\* on S' runs every pass and returns Ok with the identical Schema.
C18_ValidateIsIdempotent ==
    pc = "done" /\ ran # <<>> =>
        /\ result.ok => result = Ok(BuiltSchema) /\ schema = BuiltSchema
        /\ Len(ran) > Len(PassOrder) =>
               result = Ok(BuiltSchema) /\ Len(ran) % Len(PassOrder) = 0

\* validate has returned a second time, on a schema with a derived field.
C18_Witness ==
    /\ pc = "done"
    /\ Len(ran) > Len(PassOrder)
    /\ result.ok
    /\ \E ft \in FieldTypesOf(result.val) : ft.tag = "DerivedFromField"

\* C19: the display string of every UserDefinedFieldType T, also of a T
\* over Single(Custom(name)), is the scalar's name for a Single, brackets
\* around a ListType and a trailing "!" for a NonNullType ([Int]! for
\* NonNull(List(Single(Int)))), and read again it builds a value equal to T.
C19_DisplayRoundTrip ==
    input.field_type.tag = "RegularField" =>
        /\ pc = "to_string"
             /\ input.field_type.t = NonNullType(ListType(Single(Builtin("Int")))) =>
               result = <<"[", "I", "n", "t", "]", "!">>
        /\ pc = "from_obj_field" => result = Ok(Field(nF, input.field_type))

\* C20: the display string of DerivedFromField{entity_name,
\* derived_from_field} is the non-null list of the non-null entity followed
\* by a derivedFrom directive whose field argument is derived_from_field, and
\* read again through Field::from_obj_field it builds a DerivedFromField
\* with the same entity_name and the same derived_from_field.
C20_DerivedDisplayRoundTrip ==
    input.field_type.tag = "DerivedFromField" =>
        /\ pc = "to_string" =>
               result = <<"[">> \o input.field_type.entity_name \o <<"!", "]", "!">>
                        \o DIRECTIVE_OPEN \o input.field_type.derived_from_field
                        \o DIRECTIVE_CLOSE
        /\ pc = "from_obj_field" =>
               /\ result.ok
               /\ result.val.field_type =
                      DerivedFromField(input.field_type.entity_name,
                                       input.field_type.derived_from_field)

\* C21: building and validating the same input again gives the identical
\* outcome, whatever the iteration order of the entity, enum and field maps:
\* the same Schema, or the error of the same pass with the same identifiers.
C21_OutcomeIndependentOfIterationOrder ==
    Validated =>
        \A it \in IterOrders(BuiltSchema) :
            /\ \A k \in 1..(Len(ran) - 1) : PassResult(k, BuiltSchema, it).ok
            /\ PassResult(Len(ran), BuiltSchema, it) = result

\* C22: every error of building and validating carries an error code, and no
\* two different checks use the same code: a code returned by one pass is
\* returned by no other pass.
C22_ErrorsCarryStableCodes ==
    pc = "done" /\ ~result.ok =>
        /\ result.code # ""
        /\ Validated =>
             \A k \in (1..5) \ {Len(ran)} : \A it \in IterOrders(BuiltSchema) :
                 LET r == PassResult(k, BuiltSchema, it)
                 IN ~r.ok => r.code # result.code

\* C23: when the enum reserved-name pass succeeds, validate fails with the
\* EE210 error whenever an enum name, enum value, entity name or field name
\* (of a derived field too) is a reserved word, and the reserved-word pass
\* does not reject a schema none of whose names is reserved.
C23_ReservedWordsRejected ==
    Validated /\ DOMAIN BuiltSchema.enums \cap INTERNAL_RESERVED_ENUM_NAMES = {} =>
        IF IdentifiersOf(BuiltSchema) \cap RESERVED_WORDS # {}
        THEN ~result.ok /\ result.code = "EE210" /\ Len(ran) = 2
        ELSE result.ok \/ Len(ran) > 2

\* A schema whose only reserved word is the name of its derived field has
\* been rejected.
C23_Witness ==
    /\ Validated
    /\ IdentifiersOf(BuiltSchema) \cap RESERVED_WORDS = {nType}
    /\ nType \notin DOMAIN BuiltSchema.entities
    /\ result.code = "EE210"

\* t is exactly NonNull(List(NonNull(Single(Custom(name))))).
IsDerivedShape(t) ==
    /\ t.tag = "NonNullType"
    /\ t.inner.tag = "ListType"
    /\ t.inner.inner.tag = "NonNullType"
    /\ t.inner.inner.inner.tag = "Single"
    /\ t.inner.inner.inner.scalar.kind = "Custom"

\* C24: Field::from_obj_field returns the EE202 error for more than one
\* derivedFrom directive, EE203 when the single directive has no argument
\* named field, EE204 when that argument is not a string, an error when the
\* directive is present and the type is not exactly [Name!]!; otherwise a
\* DerivedFromField when the directive is present and a RegularField when it
\* is absent.
C24_FieldBuildErrors ==
    pc = "from_obj_field" /\ "directives" \in DOMAIN input =>
        LET derived == SelectSeq(input.directives, LAMBDA d : d.name = DERIVED_FROM)
            t == UDT_from_obj_field_type(input.field_type)
        IN IF Len(derived) > 1 THEN ~result.ok /\ result.code = "EE202"
           ELSE IF derived = <<>> THEN result = Ok(Field(input.name, RegularField(t)))
           ELSE LET args == SelectSeq(derived[1].arguments, LAMBDA a : a[1] = nField)
                IN IF args = <<>> THEN ~result.ok /\ result.code = "EE203"
                   ELSE IF "string" \notin DOMAIN args[1][2]
                   THEN ~result.ok /\ result.code = "EE204"
                   ELSE IF ~IsDerivedShape(t) THEN ~result.ok
                   ELSE result = Ok(Field(input.name,
                            DerivedFromField(UDT_get_underlying_scalar(t).name,
                                             args[1][2].string)))

\* A field [A!]! with another directive and one derivedFrom directive whose
\* field argument comes second has been built.
C24_Witness ==
    /\ pc = "from_obj_field"
    /\ "directives" \in DOMAIN input
    /\ Len(input.directives) = 2
    /\ result = Ok(Field(nF, DerivedFromField(nA, nId)))

\* abi_type is a Tuple, or an array of such a type at any depth.
RECURSIVE ContainsTuple(_)
ContainsTuple(abi_type) ==
    CASE abi_type.abi = "Tuple" -> TRUE
      [] abi_type.abi \in {"Array", "FixedArray"} -> ContainsTuple(abi_type.inner)
      [] OTHER -> FALSE

\* C25: from_ethabi_type maps Uint and Int to BigInt!, Bool to Boolean!,
\* Address, Bytes, FixedBytes and String to String!, Array and FixedArray to
\* the non-null list of the converted element type, and returns an error for
\* a Tuple at any depth.
C25_AbiTypeMapping ==
    pc = "from_ethabi_type" =>
        LET t == input.abi_type
        IN /\ t.abi \in {"Uint", "Int"} => result = Ok(NonNullType(Single(Builtin("BigInt"))))
           /\ t.abi = "Bool" => result = Ok(NonNullType(Single(Builtin("Boolean"))))
           /\ t.abi \in {"Address", "Bytes", "FixedBytes", "String"} =>
                result = Ok(NonNullType(Single(Builtin("String"))))
           /\ t.abi \in {"Array", "FixedArray"} /\ ~ContainsTuple(t) =>
                /\ UDT_from_ethabi_type(t.inner).ok
                /\ result = Ok(NonNullType(ListType(UDT_from_ethabi_type(t.inner).val)))
           /\ t = AbiArray(AbiFixedArray(AbiPlain("Bytes"), 8)) =>
                result = Ok(NonNullType(ListType(NonNullType(ListType(
                             NonNullType(Single(Builtin("String"))))))))
           /\ ContainsTuple(t) => ~result.ok

\* An array of arrays of tuples has been refused.
C25_Witness ==
    /\ pc = "from_ethabi_type"
    /\ input.abi_type = AbiArray(AbiArray(AbiTuple(<<>>)))
    /\ ~result.ok

\* C30: every type that from_ethabi_type returns is a legal field shape:
\* every ListType wraps a NonNullType and no NonNullType wraps a NonNullType,
\* and validate_type and to_postgres_type return Ok on it.
C30_AbiTypesAreLegalShapes ==
    /\ pc = "from_ethabi_type" /\ result.ok => WellNested(result.val)
    /\ pc \in {"validate_type", "to_postgres_type"} /\ "abi_type" \in DOMAIN input => result.ok

\* The type of uint256[][8] has been projected to its storage type.
C30_Witness ==
    /\ pc = "to_postgres_type"
    /\ "abi_type" \in DOMAIN input
    /\ input.abi_type = AbiFixedArray(AbiArray(AbiUint(256)), 8)
    /\ result = Ok("numeric[][] NOT NULL")

\* C26: the default value is a zero literal for Int, Float and BigInt, false
\* for Bool, a fixed placeholder string for String and for ID, the empty
\* array for every Array, None (respectively null) for every Option, the
\* <uncapitalized name>Default variant for an enum, and for a Tuple the
\* defaults of its elements, element-wise and in order.
C26_DefaultValues ==
    LET r == input.rescript_type
        rescript == pc = "get_default_value_rescript"
        Zero == IF rescript
                THEN [Int |-> "0", Float |-> "0.0", BigInt |-> "Ethers.BigInt.zero"]
                ELSE [Int |-> "0", Float |-> "0", BigInt |-> "0n"]
        ElementDefault(t) == IF rescript THEN get_default_value_rescript(t)
                             ELSE get_default_value_non_rescript(t)
    IN pc \in {"get_default_value_rescript", "get_default_value_non_rescript"} =>
        /\ r.rt \in {"Int", "Float", "BigInt"} => result = Zero[r.rt]
        /\ r.rt = "Bool" => result = "false"
        /\ r.rt = "String" => result = "\"foo\""
        /\ r.rt = "ID" => result = "\"my_id\""
        /\ r.rt = "Array" => result = "[]"
        /\ r.rt = "Option" => result = (IF rescript THEN "None" ELSE "null")
        /\ r.rt = "EnumVariant" =>
             result = (IF rescript THEN "Enums." ELSE "") \o Str(r.name.uncapitalized)
                      \o "Default"
        /\ r.rt = "Tuple" /\ Len(r.types) = 2 =>
             result = (IF rescript THEN "(" ELSE "[")
                      \o ElementDefault(r.types[1]) \o ", " \o ElementDefault(r.types[2])
                      \o (IF rescript THEN ")" ELSE "]")
        /\ r = RescriptTuple(<<RescriptOption(RescriptScalar("Int")), RescriptScalar("String")>>) =>
             result = (IF rescript THEN "(None, \"foo\")" ELSE "[null, \"foo\"]")
        /\ r = RescriptTuple(<<>>) => result = (IF rescript THEN "()" ELSE "[]")

\* The default of a tuple of an optional integer and an enum has been computed.
C26_Witness ==
    /\ pc = "get_default_value_rescript"
    /\ input.rescript_type =
         RescriptTuple(<<RescriptOption(RescriptScalar("Int")),
                         RescriptEnumVariant(to_capitalized_options(nE))>>)
    /\ result = "(None, Enums.eDefault)"

\* t is str without its leading and trailing white space.
IsTrimmed(t, str) ==
    \E i \in 1..(Len(str) + 1) : \E j \in 0..Len(str) :
        /\ t = (IF j < i THEN <<>> ELSE SubSeq(str, i, j))
        /\ \A k \in (1..(i - 1)) \cup ((j + 1)..Len(str)) : str[k] \in WhiteSpace
        /\ t # <<>> => t[1] \notin WhiteSpace /\ t[Len(t)] \notin WhiteSpace

\* C27: try_from trims the input; a trimmed string starting with "event "
\* is parsed as a signature, otherwise one containing "(" is parsed after
\* prefixing "event ", otherwise the result is Name(trimmed string), never
\* an error; a signature that fails to parse is an error, never a Name.
C27_EventNameOrSignature ==
    pc = "try_from" =>
        \E n \in 0..Len(input.event_string) : \E i \in 1..(Len(input.event_string) + 1 - n) :
            LET t == IF n = 0 THEN <<>> ELSE SubSeq(input.event_string, i, i + n - 1)
                sig == IF StartsWith(t, EVENT_PREFIX) THEN t ELSE EVENT_PREFIX \o t
            IN /\ IsTrimmed(t, input.event_string)
               /\ IF StartsWith(t, EVENT_PREFIX) \/ (\E k \in DOMAIN t : t[k] = "(")
                  THEN \/ result = Ok(EventOfSig(sig))
                       \/ ~result.ok /\ result.args = <<sig>>
                  ELSE result = Ok(EventName(t))

\* " M()", without the keyword, has been parsed as the signature "event M()".
C27_Witness ==
    /\ pc = "try_from"
    /\ input.event_string = <<" ", "M", "(", ")">>
    /\ result = Ok(EventOfSig(<<"e", "v", "e", "n", "t", " ", "M", "(", ")">>))


\* C28: in every Schema that Schema::new returned, the field a
\* DerivedFromField names on its target entity is a RegularField of that
\* entity, never a DerivedFromField, so that the relational key refers to a
\* stored field.
C28_DerivedTargetsAreStored ==
    Validated /\ result.ok =>
        \A ft \in FieldTypesOf(result.val) :
            ft.tag = "DerivedFromField" =>
                result.val.entities[ft.entity_name].fields[ft.derived_from_field]
                    .field_type.tag = "RegularField"


\* C29: on every field of every entity of a Schema that Schema::new
\* returned, is_optional is true exactly when to_rescript_type returns an
\* Option.
C29_OptionalIffOption ==
    pc = "is_optional" =>
        /\ result.rescript_type.ok
        /\ result.is_optional <=> result.rescript_type.val.rt = "Option"

\* A nullable list field of a validated schema is optional and projects to
\* an Option of an Array.
C29_Witness ==
    /\ pc = "is_optional"
    /\ schema.entities[result.field[1]].fields[result.field[2]].field_type.tag = "RegularField"
    /\ schema.entities[result.field[1]].fields[result.field[2]].field_type.t.tag = "ListType"
    /\ result.is_optional
    /\ result.rescript_type.ok
    /\ result.rescript_type.val.rt = "Option"
    /\ result.rescript_type.val.inner.rt = "Array"

====
